---- MODULE Spec2Model ----
(***************************************************************************)
(* text2dataset: text normalization -> entity extraction -> quality        *)
(* filtering -> format conversion (labeling_fast.py, labeling_smart.py,   *)
(* preprocess.py).                                                         *)
(*                                                                         *)
(* A Python str is a sequence of characters; a character is a string:     *)
(* an ASCII character stands for itself ("a", " ", "$") and any other     *)
(* code point is written "U+XXXX" ("U+00A3" is the pound sign).           *)
(***************************************************************************)
EXTENDS Integers, Sequences, FiniteSets, TLC

VARIABLES
    pc,               \* position of the running call
    fn,               \* the function that is running
    raw,              \* the argument text of a pure-function run
    label,            \* the label argument of is_meaningful_entity
    ret,              \* the values a pure function returned so far, oldest first
    imported,         \* the labeling modules this process has imported
    SPACY_AVAILABLE,  \* labeling_fast.SPACY_AVAILABLE
    nlp,              \* labeling_fast.nlp
    smart_nlp,        \* labeling_smart.nlp
    sentences,        \* the argument of the running label/convert call
    idx,              \* how many sentences the for loop has taken
    results,          \* the list results (labeled_data in the caller)
    path,             \* history: the branch taken for each sentence so far
    spacy_format,     \* what convert_to_spacy_format returned
    runs,             \* the locals of each run of generate_dataset
    files,            \* the files of the working directory, path and content
    uuids,            \* the values uuid.uuid4 has returned
    now,              \* what datetime.now() returns
    cache,            \* CacheManager._cache
    cache_call,       \* the last call on the cache and what it returned
    stored,           \* history: what set stored last under each key
    executed,         \* history: the calls that ran the cached function
    user_sessions,    \* AuthManager.user_sessions
    auth_call,        \* the last call on the AuthManager and its outcome
    issued,           \* history: the user of every session id create_session returned
    invalidated,      \* history: the session ids invalidate_session removed
    use_mongodb,      \* CommunityDatasets.use_mongodb
    likes,            \* the likes counter of every community dataset
    dataset_likes,    \* the MongoDB collection dataset_likes
    like_call,        \* the last like_dataset request and its outcome
    increments,       \* history: the increments each user's likes have made
    history,          \* the entries of history/dataset_history.json
    history_call      \* the last call on the DatasetHistory and what it returned

pureVars == <<raw, label, ret>>
moduleVars == <<imported, SPACY_AVAILABLE, nlp, smart_nlp>>
callVars == <<sentences, idx, results, path, spacy_format>>
cacheVars == <<now, cache, cache_call, stored, executed>>
authVars == <<user_sessions, auth_call, issued, invalidated>>
likeVars == <<use_mongodb, likes, dataset_likes, like_call, increments>>
histVars == <<history, history_call>>
svcVars == <<cacheVars, authVars, likeVars, histVars>>
appVars == <<runs, files, uuids, svcVars>>
vars == <<pc, fn, raw, label, ret, imported, SPACY_AVAILABLE, nlp, smart_nlp,
          sentences, idx, results, path, spacy_format, runs, files, uuids,
          svcVars>>

\* Python's None, and the k-th pipeline object spacy.load has built in this
\* process: every call of spacy.load builds a new object
None == <<"<None>">>
Model(k) == <<"<en_core_web_sm>", IF k = 1 THEN "#1" ELSE "#2">>

(***************************************************************************)
(* Characters                                                              *)
(***************************************************************************)
\* "abc" as a sequence of characters
Str(s) == [i \in 1..Len(s) |-> SubSeq(s, i, i)]

NBSP == "U+00A0"
A_CIRC == "U+00C2"
POUND == "U+00A3"
EURO == "U+20AC"
YEN == "U+00A5"
LDQUO == "U+201C"
RDQUO == "U+201D"
LSQUO == "U+2018"
RSQUO == "U+2019"
NDASH == "U+2013"
MDASH == "U+2014"
HELLIP == "U+2026"
BDQUO == "U+201E"
SBQUO == "U+201A"
CENT == "U+00A2"
DEGREE == "U+00B0"
PLUSMINUS == "U+00B1"
SECTION == "U+00A7"

\* str.isspace / the regex class \s on str patterns (Unicode whitespace)
SpaceChars == {" ", "\t", "\n", "\r", "\f", NBSP}
IsSpace(c) == c \in SpaceChars

LowerLetters == Str("abcdefghijklmnopqrstuvwxyz")
UpperLetters == Str("ABCDEFGHIJKLMNOPQRSTUVWXYZ")
Range(s) == {s[i] : i \in 1..Len(s)}

Digits == Range(Str("0123456789"))
Letters == Range(LowerLetters) \cup Range(UpperLetters)

\* [0-9]
IsDigit(c) == c \in Digits

\* the regex class \w on str patterns: alphanumeric or underscore
\* (U+00C2 and U+00E2 are letters; currency signs and punctuation are not)
IsWord(c) ==
    \/ c \in Letters
    \/ IsDigit(c)
    \/ c \in {"_", A_CIRC, "U+00E2"}

\* str.lower, one character
lower_char(c) ==
    IF c \in Letters /\ \E i \in 1..26 : UpperLetters[i] = c
    THEN LowerLetters[CHOOSE i \in 1..26 : UpperLetters[i] = c]
    ELSE IF c = A_CIRC THEN "U+00E2" ELSE c

lower(text) == [i \in 1..Len(text) |-> lower_char(text[i])]

\* sub in text
Contains(text, sub) ==
    \E i \in 0..(Len(text) - Len(sub)) : SubSeq(text, i + 1, i + Len(sub)) = sub

(***************************************************************************)
(* String helpers (str.replace, re.sub(r'\s+', ' ', .), str.strip)         *)
(***************************************************************************)
\* text.replace(old, new) for a one-character old; new is a sequence
RECURSIVE replace(_, _, _)
replace(text, old, new) ==
    IF text = <<>> THEN <<>>
    ELSE (IF Head(text) = old THEN new ELSE <<Head(text)>>)
             \o replace(Tail(text), old, new)

\* re.sub(r'\s+', ' ', text): every maximal whitespace run becomes one space
RECURSIVE sub_ws(_)
sub_ws(text) ==
    IF text = <<>> THEN <<>>
    ELSE IF IsSpace(Head(text))
         THEN IF Len(text) > 1 /\ IsSpace(text[2])
              THEN sub_ws(Tail(text))
              ELSE <<" ">> \o sub_ws(Tail(text))
         ELSE <<Head(text)>> \o sub_ws(Tail(text))

RECURSIVE lstrip(_)
lstrip(text) ==
    IF text # <<>> /\ IsSpace(Head(text)) THEN lstrip(Tail(text)) ELSE text

RECURSIVE rstrip(_)
rstrip(text) ==
    IF text # <<>> /\ IsSpace(text[Len(text)])
    THEN rstrip(SubSeq(text, 1, Len(text) - 1))
    ELSE text

strip(text) == rstrip(lstrip(text))

(***************************************************************************)
(* labeling_fast.clean_text, labeling_smart.clean_text,                    *)
(* preprocess.clean_text                                                   *)
(***************************************************************************)
\* a variant that maps the low-9 marks to the opening curly marks
normalize_symbols_curly(text) ==
    LET t1 == replace(replace(text, LDQUO, <<"\"">>), RDQUO, <<"\"">>)
        t2 == replace(replace(t1, LSQUO, <<"'">>), RSQUO, <<"'">>)
        t3 == replace(replace(t2, NDASH, <<"-">>), MDASH, <<"-">>)
        t4 == replace(t3, NBSP, <<" ">>)
        t5 == replace(replace(replace(t4, POUND, <<POUND>>), EURO, <<EURO>>),
                      YEN, <<YEN>>)
        t6 == replace(t5, HELLIP, <<".", ".", ".">>)
        t7 == replace(t6, BDQUO, <<LDQUO>>)
        t8 == replace(t7, SBQUO, <<LSQUO>>)
    IN  t8

\* lines 91-98 of labeling_fast.py, one replace call after the other
normalize_symbols(text) ==
    LET t1 == replace(replace(text, LDQUO, <<"\"">>), RDQUO, <<"\"">>)
        t2 == replace(replace(t1, LSQUO, <<"'">>), RSQUO, <<"'">>)
        t3 == replace(replace(t2, NDASH, <<"-">>), MDASH, <<"-">>)
        t4 == replace(t3, NBSP, <<" ">>)
        t5 == replace(replace(replace(t4, POUND, <<POUND>>), EURO, <<EURO>>),
                      YEN, <<YEN>>)
        t6 == replace(t5, HELLIP, <<".", ".", ".">>)
        t7 == replace(replace(t6, BDQUO, <<"\"">>), LDQUO, <<"\"">>)
        t8 == replace(replace(t7, SBQUO, <<"'">>), LSQUO, <<"'">>)
    IN  t8

\* a variant without the strip of line 102
clean_text_unstripped(text) ==
    IF text = <<>> THEN <<>>
    ELSE sub_ws(normalize_symbols(text))

\* labeling_fast.clean_text, lines 77-102
clean_text(text) ==
    IF text = <<>> THEN <<>>
    ELSE strip(sub_ws(normalize_symbols(text)))

smart_normalize_symbols(text) ==
    LET t1 == replace(replace(text, LDQUO, <<"\"">>), RDQUO, <<"\"">>)
        t2 == replace(replace(t1, LSQUO, <<"'">>), RSQUO, <<"'">>)
        t3 == replace(replace(t2, NDASH, <<"-">>), MDASH, <<"-">>)
        t4 == replace(t3, NBSP, <<" ">>)
        t5 == replace(replace(replace(t4, POUND, <<POUND>>), EURO, <<EURO>>),
                      YEN, <<YEN>>)
        t6 == replace(t5, HELLIP, <<".", ".", ".">>)
        t7 == replace(replace(t6, BDQUO, <<"\"">>), LDQUO, <<"\"">>)
        t8 == replace(replace(t7, SBQUO, <<"'">>), LSQUO, <<"'">>)
    IN  t8

smart_clean_text(text) ==
    IF text = <<>> THEN <<>>
    ELSE strip(sub_ws(smart_normalize_symbols(text)))

preprocess_clean_text(text) ==
    IF text = <<>> THEN <<>>
    ELSE strip(sub_ws(text))

(***************************************************************************)
(* labeling_fast.is_meaningful_entity (labeling_smart.is_meaningful_entity *)
(* is the same text, line for line)                                        *)
(***************************************************************************)
currency_symbols == {"$", POUND, EURO, YEN}

currency_words ==
    {Str("dollar"), Str("pound"), Str("euro"), Str("yen"),
     Str("usd"), Str("gbp"), Str("eur"), Str("jpy")}

stop_words ==
    {Str("the"), Str("a"), Str("an"), Str("and"), Str("or"), Str("but"),
     Str("in"), Str("on"), Str("at"), Str("to"), Str("for"), Str("of"),
     Str("with"), Str("by"), Str("is"), Str("are"), Str("was"), Str("were"),
     Str("be"), Str("been"), Str("being"), Str("have"), Str("has"),
     Str("had"), Str("do"), Str("does"), Str("did"), Str("will"),
     Str("would"), Str("could"), Str("should"), Str("may"), Str("might"),
     Str("must"), Str("can")}

\* re.match(r'^[0-9\W]+$', text) on a stripped text
only_digits_and_symbols(text) ==
    /\ text # <<>>
    /\ \A i \in 1..Len(text) : IsDigit(text[i]) \/ ~IsWord(text[i])

\* re.search(r'[<pound>$<euro><yen>]', text)
has_currency_symbol(text) ==
    \E i \in 1..Len(text) : text[i] \in currency_symbols

\* len(re.findall(r'[^\w\s]', text))
punctuation_count(text) ==
    Cardinality({i \in 1..Len(text) : ~IsWord(text[i]) /\ ~IsSpace(text[i])})

\* lines 142-150: a MONEY entity names a currency
has_currency_info(entity_text) ==
    \/ \E symbol \in currency_symbols : Contains(entity_text, <<symbol>>)
    \/ \E word \in currency_words : Contains(lower(entity_text), word)

\* a variant without the MONEY rule of lines 142-150
money_rule_off(entity_text, lbl) == TRUE

money_rule(entity_text, lbl) ==
    lbl = "MONEY" => has_currency_info(entity_text)

\* a variant that rejects every text of at most one character
single_char_rule_strict(entity_text, lbl) == FALSE

\* lines 120-124: a bare currency symbol is a MONEY entity
single_char_rule(entity_text, lbl) ==
    lbl = "MONEY" /\ strip(entity_text) \in {<<c>> : c \in currency_symbols}

is_meaningful_entity(entity_text, lbl) ==
    IF entity_text = <<>> \/ strip(entity_text) = <<>> THEN FALSE
    ELSE IF Len(strip(entity_text)) <= 1
    THEN single_char_rule(entity_text, lbl)
    ELSE IF only_digits_and_symbols(strip(entity_text))
    THEN lbl = "MONEY" /\ has_currency_symbol(entity_text)
    ELSE IF lower(entity_text) \in stop_words THEN FALSE
    ELSE IF 2 * punctuation_count(entity_text) > Len(entity_text) THEN FALSE
    ELSE money_rule(entity_text, lbl)

(***************************************************************************)
(* Regular expressions (module re): a pattern is a tree; Ends gives the    *)
(* offsets at which a match starting at offset i can end, in the order a   *)
(* backtracking matcher tries them (greedy repetition, leftmost            *)
(* alternative first).  Offsets count the characters before the position.  *)
(***************************************************************************)
Set(chars) == [t |-> "set", s |-> chars]
Cat(rs) == [t |-> "cat", rs |-> rs]
Alt(rs) == [t |-> "alt", rs |-> rs]
\* {min,max}, and {min,} (also * and +), both greedy
Rep(r, min, max) ==
    [t |-> "rep", r |-> r, min |-> min, bounded |-> TRUE, max |-> max]
AtLeast(r, min) ==
    [t |-> "rep", r |-> r, min |-> min, bounded |-> FALSE, max |-> min]
Opt(r) == Rep(r, 0, 1)
WordB == [t |-> "wb"]

upper_char(c) ==
    IF c \in Letters /\ \E i \in 1..26 : LowerLetters[i] = c
    THEN UpperLetters[CHOOSE i \in 1..26 : LowerLetters[i] = c]
    ELSE IF c = "U+00E2" THEN A_CIRC ELSE c

\* a literal string; under re.IGNORECASE a letter matches in both cases
Lit(str) == Cat([i \in 1..Len(str) |-> Set({SubSeq(str, i, i)})])
LitI(str) ==
    Cat([i \in 1..Len(str) |->
            Set({lower_char(SubSeq(str, i, i)), upper_char(SubSeq(str, i, i))})])

\* \b: a word character on exactly one side of the position
WordBoundary(s, i) ==
    (i > 0 /\ IsWord(s[i])) # (i < Len(s) /\ IsWord(s[i + 1]))

RECURSIVE Ends(_, _, _)
RECURSIVE EndsFrom(_, _, _)
RECURSIVE EndsCat(_, _, _)
RECURSIVE EndsAlt(_, _, _)
RECURSIVE EndsRep(_, _, _, _)
RECURSIVE EndsRepFrom(_, _, _, _)

\* the ends of r from each of the offsets in starts, in order
EndsFrom(r, s, starts) ==
    IF starts = <<>> THEN <<>>
    ELSE Ends(r, s, Head(starts)) \o EndsFrom(r, s, Tail(starts))

EndsCat(rs, s, starts) ==
    IF rs = <<>> THEN starts
    ELSE EndsCat(Tail(rs), s, EndsFrom(Head(rs), s, starts))

EndsAlt(rs, s, i) ==
    IF rs = <<>> THEN <<>>
    ELSE Ends(Head(rs), s, i) \o EndsAlt(Tail(rs), s, i)

\* n repetitions of rep.r are done and the match stands at offset i
EndsRep(rep, s, i, n) ==
    LET longer ==
            IF ~rep.bounded \/ n < rep.max
            THEN EndsRepFrom(rep, s,
                     SelectSeq(Ends(rep.r, s, i), LAMBDA e : e > i), n + 1)
            ELSE <<>>
    IN  longer \o (IF n >= rep.min THEN <<i>> ELSE <<>>)

EndsRepFrom(rep, s, starts, n) ==
    IF starts = <<>> THEN <<>>
    ELSE EndsRep(rep, s, Head(starts), n) \o EndsRepFrom(rep, s, Tail(starts), n)

Ends(r, s, i) ==
    CASE r.t = "set" ->
            IF i < Len(s) /\ s[i + 1] \in r.s THEN <<i + 1>> ELSE <<>>
      [] r.t = "wb" -> IF WordBoundary(s, i) THEN <<i>> ELSE <<>>
      [] r.t = "cat" -> EndsCat(r.rs, s, <<i>>)
      [] r.t = "alt" -> EndsAlt(r.rs, s, i)
      [] r.t = "rep" -> EndsRep(r, s, i, 0)

\* re.findall(pattern, s) for a pattern without capturing groups: the
\* leftmost matches, each search starting where the last match ended
RECURSIVE findall_from(_, _, _)
findall_from(r, s, pos) ==
    IF pos > Len(s) THEN <<>>
    ELSE LET m == Ends(r, s, pos)
         IN  IF m = <<>> THEN findall_from(r, s, pos + 1)
             ELSE <<SubSeq(s, pos + 1, Head(m))>>
                      \o findall_from(r, s,
                             IF Head(m) = pos THEN pos + 1 ELSE Head(m))

findall(r, s) == findall_from(r, s, 0)

(***************************************************************************)
(* labeling_fast.extract_entities_fallback                                 *)
(***************************************************************************)
Digit == Set(Digits)
DateSep == Set({"/", "-"})
PhoneSep == Opt(Set({"-", "."} \cup SpaceChars))
Amount == Set(Digits \cup {","})
Cents == Opt(Cat(<<Set({"."}), Rep(Digit, 2, 2)>>))

\* lines 167-171, matched with re.IGNORECASE
date_patterns ==
    <<Cat(<<WordB, Rep(Digit, 1, 2), DateSep, Rep(Digit, 1, 2), DateSep,
            Rep(Digit, 2, 4), WordB>>),
      Cat(<<WordB, Rep(Digit, 4, 4), WordB>>),
      Cat(<<WordB,
            Alt(<<LitI("Jan"), LitI("Feb"), LitI("Mar"), LitI("Apr"),
                  LitI("May"), LitI("Jun"), LitI("Jul"), LitI("Aug"),
                  LitI("Sep"), LitI("Oct"), LitI("Nov"), LitI("Dec")>>),
            AtLeast(Set(Letters), 0), Set({" "}), Rep(Digit, 1, 2),
            Opt(Set({","})), Set({" "}), Rep(Digit, 4, 4), WordB>>)>>

\* line 185, matched case-sensitively
email_pattern ==
    Cat(<<WordB,
          AtLeast(Set(Letters \cup Digits \cup {".", "_", "%", "+", "-"}), 1),
          Set({"@"}),
          AtLeast(Set(Letters \cup Digits \cup {".", "-"}), 1),
          Set({"."}),
          AtLeast(Set(Letters \cup {"|"}), 2),
          WordB>>)

\* line 197
phone_pattern ==
    Cat(<<Opt(Cat(<<Opt(Set({"+"})), Set({"1"}), PhoneSep>>)),
          Opt(Set({"("})), Rep(Digit, 3, 3), Opt(Set({")"})), PhoneSep,
          Rep(Digit, 3, 3), PhoneSep, Rep(Digit, 4, 4)>>)

\* lines 209-215, matched with re.IGNORECASE
money_patterns ==
    <<Cat(<<Set({"$"}), AtLeast(Amount, 1), Cents>>),
      Cat(<<Set({POUND}), AtLeast(Amount, 1), Cents>>),
      Cat(<<Set({EURO}), AtLeast(Amount, 1), Cents>>),
      Cat(<<Set({YEN}), AtLeast(Amount, 1), Cents>>),
      Cat(<<AtLeast(Amount, 1), Cents,
            AtLeast(Set(SpaceChars), 0),
            Alt(<<LitI("dollars"), LitI("USD"), LitI("pounds"), LitI("GBP"),
                  LitI("euros"), LitI("EUR"), LitI("yen"), LitI("JPY")>>)>>)>>

Record(text, entity, lbl) == [text |-> text, entity |-> entity, label |-> lbl]

\* the loop over the matches of one pattern: clean, filter, append
RECURSIVE accept_matches(_, _, _)
accept_matches(sentence, matches, lbl) ==
    IF matches = <<>> THEN <<>>
    ELSE LET clean_match == clean_text(Head(matches))
         IN  (IF is_meaningful_entity(clean_match, lbl)
              THEN <<Record(sentence, clean_match, lbl)>>
              ELSE <<>>)
                 \o accept_matches(sentence, Tail(matches), lbl)

\* the loop over the patterns of one family
RECURSIVE accept_patterns(_, _, _)
accept_patterns(sentence, patterns, lbl) ==
    IF patterns = <<>> THEN <<>>
    ELSE accept_matches(sentence, findall(Head(patterns), sentence), lbl)
             \o accept_patterns(sentence, Tail(patterns), lbl)

extract_entities_fallback(sentence) ==
    accept_patterns(sentence, date_patterns, "DATE")
        \o accept_matches(sentence, findall(email_pattern, sentence), "EMAIL")
        \o accept_matches(sentence, findall(phone_pattern, sentence), "PHONE")
        \o accept_patterns(sentence, money_patterns, "MONEY")

(***************************************************************************)
(* The recognizer nlp(sentence) is an opaque library call: it raises, or   *)
(* it returns doc.ents, a sequence of entities, each a non-empty span      *)
(* [b, e) of the sentence with a label; the spans follow one another       *)
(* without overlap.                                                        *)
(***************************************************************************)
MaxEnts == 2

EntLabels == {"MONEY", "ORG"}

Ent(b, e, lbl) == [b |-> b, e |-> e, label_ |-> lbl]

\* ent.text
ent_text(sentence, ent) == SubSeq(sentence, ent.b + 1, ent.e)

\* the entity sequences of at most k spans that start at offset pos or later
RECURSIVE EntsFrom(_, _, _)
EntsFrom(n, pos, k) ==
    {<<>>} \cup
    (IF k = 0 THEN {}
     ELSE UNION {UNION {{<<Ent(b, e, lbl)>> \o rest : rest \in EntsFrom(n, e, k - 1)}
                        : lbl \in EntLabels}
                 : <<b, e>> \in {be \in (pos..n) \X (pos..n) : be[1] < be[2]}})

DocEnts(sentence) == EntsFrom(Len(sentence), 0, MaxEnts)

(***************************************************************************)
(* labeling_fast.label_entities_fast                                       *)
(***************************************************************************)
\* lines 46-56: the text of the candidate for one recognized entity
candidate_text(sentence, ent) ==
    LET entity_text == strip(ent_text(sentence, ent))
        money_text ==
            IF ent.label_ = "MONEY"
            THEN replace(replace(replace(sub_ws(entity_text),
                     POUND, <<POUND>>), EURO, <<EURO>>), YEN, <<YEN>>)
            ELSE entity_text
    IN  clean_text(money_text)

\* a variant that accepts every candidate
accept_all(entity_text, lbl) == TRUE

\* line 59
accept(entity_text, lbl) == is_meaningful_entity(entity_text, lbl)

\* lines 40-64: the loop over doc.ents
RECURSIVE primary_entities(_, _)
primary_entities(sentence, ents) ==
    IF ents = <<>> THEN <<>>
    ELSE LET ent == Head(ents)
             entity_text == candidate_text(sentence, ent)
         IN  (IF strip(ent_text(sentence, ent)) = <<>> THEN <<>>
              ELSE IF accept(entity_text, ent.label_)
              THEN <<Record(sentence, entity_text, ent.label_)>>
              ELSE <<>>)
                 \o primary_entities(sentence, Tail(ents))

\* a variant of the handler that adds the fallback records to the list
on_exception_extend(sentence, partial) ==
    partial \o extract_entities_fallback(sentence)

\* lines 65-68: the handler assigns the fallback records to entities;
\* partial is what the loop had appended when the exception came
on_exception(sentence, partial) == extract_entities_fallback(sentence)

\* a variant that does not test whether the model was loaded
use_primary_unchecked == TRUE

\* line 37
use_primary == SPACY_AVAILABLE /\ nlp # None

\* line 32
is_blank(sentence) == strip(sentence) = <<>>

(***************************************************************************)
(* labeling_smart                                                          *)
(***************************************************************************)
smart_is_meaningful_entity(entity_text, lbl) ==
    IF entity_text = <<>> \/ strip(entity_text) = <<>> THEN FALSE
    ELSE IF Len(strip(entity_text)) <= 1
    THEN lbl = "MONEY" /\ strip(entity_text) \in {<<c>> : c \in currency_symbols}
    ELSE IF only_digits_and_symbols(strip(entity_text))
    THEN lbl = "MONEY" /\ has_currency_symbol(entity_text)
    ELSE IF lower(entity_text) \in stop_words THEN FALSE
    ELSE IF 2 * punctuation_count(entity_text) > Len(entity_text) THEN FALSE
    ELSE lbl = "MONEY" => has_currency_info(entity_text)

\* lines 159-169
smart_candidate_text(sentence, ent) ==
    LET entity_text == strip(ent_text(sentence, ent))
        money_text ==
            IF ent.label_ = "MONEY"
            THEN replace(replace(replace(sub_ws(entity_text),
                     POUND, <<POUND>>), EURO, <<EURO>>), YEN, <<YEN>>)
            ELSE entity_text
    IN  smart_clean_text(money_text)

\* lines 153-177: the loop over doc.ents
RECURSIVE smart_primary_entities(_, _)
smart_primary_entities(sentence, ents) ==
    IF ents = <<>> THEN <<>>
    ELSE LET ent == Head(ents)
             entity_text == smart_candidate_text(sentence, ent)
         IN  (IF strip(ent_text(sentence, ent)) = <<>> THEN <<>>
              ELSE IF smart_is_meaningful_entity(entity_text, ent.label_)
              THEN <<Record(sentence, entity_text, ent.label_)>>
              ELSE <<>>)
                 \o smart_primary_entities(sentence, Tail(ents))

\* lines 36-49: the keyword lists, in the order they are tried
category_keywords ==
    <<<<"CATEGORY_TECHNOLOGY",
        {"tech", "computer", "software", "digital", "internet", "app", "ai",
         "artificial"}>>,
      <<"CATEGORY_SPORTS",
        {"sport", "game", "football", "basketball", "tennis", "olympic",
         "championship"}>>,
      <<"CATEGORY_POLITICS",
        {"politic", "government", "election", "president", "minister",
         "senator", "congress"}>>,
      <<"CATEGORY_BUSINESS",
        {"business", "market", "economy", "stock", "finance", "company",
         "corporation"}>>,
      <<"CATEGORY_HEALTH",
        {"health", "medical", "doctor", "hospital", "disease", "treatment"}>>,
      <<"CATEGORY_ENTERTAINMENT",
        {"entertain", "movie", "film", "actor", "celebrity", "music",
         "concert"}>>>>

RECURSIVE classify_from(_, _)
classify_from(text_lower, k) ==
    IF k > Len(category_keywords) THEN "CATEGORY_GENERAL"
    ELSE IF \E word \in category_keywords[k][2] : Contains(text_lower, Str(word))
    THEN category_keywords[k][1]
    ELSE classify_from(text_lower, k + 1)

classify_category(text) == classify_from(lower(text), 1)

\* lines 181-185 and 188-192
sentence_record(sentence) == Record(sentence, sentence, "SENTENCE")

\* a variant that stores the trimmed sentence as the entity
category_record_stripped(sentence) ==
    Record(sentence, strip(sentence), classify_category(sentence))

\* a variant that labels the whole sentence SENTENCE, not with its category
category_record_as_sentence(sentence) == Record(sentence, sentence, "SENTENCE")

\* lines 195-201
category_record(sentence) == Record(sentence, sentence, classify_category(sentence))

(***************************************************************************)
(* convert_to_spacy_format (labeling_fast lines 243-264, labeling_smart    *)
(* lines 230-251): text_entities is a dict; its keys keep insertion order. *)
(***************************************************************************)
\* a variant that gives the last occurrence
find_last(text, entity) ==
    LET hits == {i \in 0..(Len(text) - Len(entity)) :
                    SubSeq(text, i + 1, i + Len(entity)) = entity}
    IN  IF hits = {} THEN -1 ELSE CHOOSE i \in hits : \A j \in hits : i >= j

\* text.find(entity)
find(text, entity) ==
    LET hits == {i \in 0..(Len(text) - Len(entity)) :
                    SubSeq(text, i + 1, i + Len(entity)) = entity}
    IN  IF hits = {} THEN -1 ELSE CHOOSE i \in hits : \A j \in hits : i <= j

\* a variant that takes the length of the entity for the end offset
span_end_no_start(start, entity) == Len(entity)

\* end = start + len(entity)
span_end(start, entity) == start + Len(entity)

\* a variant that finds no key
has_key_never(text_entities, text) == FALSE

has_key(text_entities, text) ==
    \E k \in 1..Len(text_entities) : text_entities[k].text = text

\* a variant that adds the span whether or not the entity was found
group_item_keep_unlocated(text_entities, item) ==
    LET keyed == IF has_key(text_entities, item.text) THEN text_entities
                 ELSE Append(text_entities, [text |-> item.text, entities |-> <<>>])
        start == find(item.text, item.entity)
    IN  [k \in 1..Len(keyed) |->
            IF keyed[k].text = item.text
            THEN [keyed[k] EXCEPT !.entities =
                     Append(@, <<start, span_end(start, item.entity), item.label>>)]
            ELSE keyed[k]]

\* one pass of the loop over labeled_data
group_item(text_entities, item) ==
    LET keyed == IF has_key(text_entities, item.text) THEN text_entities
                 ELSE Append(text_entities, [text |-> item.text, entities |-> <<>>])
        start == find(item.text, item.entity)
    IN  IF start = -1 THEN keyed
        ELSE [k \in 1..Len(keyed) |->
                 IF keyed[k].text = item.text
                 THEN [keyed[k] EXCEPT !.entities =
                          Append(@, <<start, span_end(start, item.entity), item.label>>)]
                 ELSE keyed[k]]

RECURSIVE group_by_text(_, _)
group_by_text(text_entities, labeled_data) ==
    IF labeled_data = <<>> THEN text_entities
    ELSE group_by_text(group_item(text_entities, Head(labeled_data)),
                       Tail(labeled_data))

(***************************************************************************)
(* Runs of the pure functions: the arguments are drawn from the bounded    *)
(* strings and from the texts the repository's test scripts use.           *)
(***************************************************************************)
MaxCleanLen == 3
MaxApply == 2
MaxEntityLen == 3

\* the two requests of an interleaving
RunIds == {"r1", "r2"}

\* the locals of generate_dataset before the request has come
NoRun ==
    [pc |-> "idle", text |-> <<>>, mode |-> "none", output_format |-> "none",
     file_id |-> "none", labeled_data |-> <<>>, file_content |-> None,
     response |-> None]

\* line 19 of cache.py: the empty dictionary
NoEntries == [k \in {} |-> None]

\* cache.py line 182, CacheManager.__init__ lines 18-21: the cache is empty
NoCache ==
    /\ now = 0
    /\ cache = NoEntries
    /\ cache_call = [op |-> "none"]
    /\ stored = NoEntries
    /\ executed = {}

\* auth.py line 83, AuthManager.__init__ lines 18-20: no session
NoAuth ==
    /\ user_sessions = NoEntries
    /\ auth_call = [op |-> "none"]
    /\ issued = NoEntries
    /\ invalidated = {}

\* community_datasets.py lines 45-78: file-based storage, no like yet
NoLikes ==
    /\ use_mongodb = FALSE
    /\ likes = NoEntries
    /\ dataset_likes = {}
    /\ like_call = [op |-> "none"]
    /\ increments = NoEntries

\* dataset_history.py lines 32-62 and 148-160: file-based storage, no
\* history file yet
NoHistory ==
    /\ history = <<>>
    /\ history_call = [op |-> "none"]

NoServices == NoCache /\ NoAuth /\ NoLikes /\ NoHistory

\* no labeling module imported, no label or convert call running, no
\* request served
NoLabeling ==
    /\ runs = [r \in RunIds |-> NoRun]
    /\ files = {}
    /\ uuids = {}
    /\ imported = {}
    /\ SPACY_AVAILABLE = FALSE
    /\ nlp = None
    /\ smart_nlp = None
    /\ sentences = <<>>
    /\ idx = 0
    /\ results = <<>>
    /\ path = <<>>
    /\ spacy_format = None

NoProcess == NoServices /\ NoLabeling

StringsUpTo(chars, n) == UNION {[1..k -> chars] : k \in 0..n}

Last(s) == s[Len(s)]

CleanChars ==
    {"a", ".", " ", "\t", NBSP, A_CIRC, POUND, EURO, YEN, LDQUO, RDQUO,
     LSQUO, RSQUO, NDASH, MDASH, HELLIP, BDQUO, SBQUO}

\* test_encoding_fix.py lines 13-22, test_utf8_money.py lines 13-19
MojibakeTexts ==
    {<<A_CIRC, POUND>> \o Str("60,000"),
     <<A_CIRC, POUND>> \o Str("2,000"),
     <<A_CIRC, POUND>> \o Str("5.60 an hour"),
     Str("Costs ") \o <<A_CIRC, EURO>> \o Str("50"),
     Str("Amount ") \o <<A_CIRC, YEN>> \o Str("1000"),
     <<A_CIRC, CENT>> \o Str("1.50 per item"),
     <<A_CIRC, DEGREE>> \o Str(" Celsius"),
     <<A_CIRC, PLUSMINUS>> \o Str("5% tolerance"),
     Str("File ") \o <<A_CIRC, SECTION>> \o Str("2.1")}

SymbolTexts ==
    {Str("non-breaking space") \o <<NBSP>> \o Str("here"),
     Str("German quotes ") \o <<BDQUO>> \o Str("text") \o <<LDQUO>>,
     Str("en dash ") \o <<NDASH>> \o Str(" and em dash ") \o <<MDASH>>,
     Str("horizontal ellipsis") \o <<HELLIP>>}

CleanInputs ==
    StringsUpTo(CleanChars, MaxCleanLen) \cup MojibakeTexts \cup SymbolTexts

CleanFns == {"labeling_fast", "labeling_smart", "preprocess"}

Apply(f, text) ==
    CASE f = "labeling_fast" -> clean_text(text)
      [] f = "labeling_smart" -> smart_clean_text(text)
      [] f = "preprocess" -> preprocess_clean_text(text)

InitClean ==
    /\ pc = "clean"
    /\ fn \in CleanFns
    /\ raw \in CleanInputs
    /\ label = "NONE"
    /\ ret = <<>>
    /\ NoProcess

\* one more application of clean_text, to the value it returned last
CleanText ==
    /\ pc = "clean"
    /\ Len(ret) < MaxApply
    /\ ret' = Append(ret, Apply(fn, IF ret = <<>> THEN raw ELSE Last(ret)))
    /\ UNCHANGED <<appVars, pc, fn, raw, label, moduleVars, callVars>>

NextClean == CleanText

SpecClean == InitClean /\ [][NextClean]_vars

FilterChars == {"a", "n", "d", "A", "u", "s", "1", "$", POUND, ",", " ", "!"}

FilterLabels == {"MONEY", "DATE", "ORG"}

\* test_fixes.py lines 84-87, test_utf8_money.py lines 35-51 and 102-105
TestEntities ==
    {Str("the end of"), Str("end of"), Str("the beginning"), Str("a period"),
     Str("$100"), <<POUND>> \o Str("50.99"), <<EURO>> \o Str("200"),
     <<YEN>> \o Str("1000"), Str("100 dollars"), Str("50 USD"),
     <<EURO>>, <<YEN>>, Str("123"), Str("abc"), Str("the"), Str("THE"),
     Str("John"), Str("Apple Inc."), Str("New York")}

FilterInputs == StringsUpTo(FilterChars, MaxEntityLen) \cup TestEntities

InitFilter ==
    /\ pc = "filter"
    /\ fn = "is_meaningful_entity"
    /\ raw \in FilterInputs
    /\ label \in FilterLabels
    /\ ret = <<>>
    /\ NoProcess

\* the call is_meaningful_entity(raw, label)
IsMeaningfulEntity ==
    /\ pc = "filter"
    /\ ret = <<>>
    /\ ret' = <<is_meaningful_entity(raw, label)>>
    /\ UNCHANGED <<appVars, pc, fn, raw, label, moduleVars, callVars>>

NextFilter == IsMeaningfulEntity

SpecFilter == InitFilter /\ [][NextFilter]_vars

(***************************************************************************)
(* One process: it imports the labeling modules on first use (app.py       *)
(* lines 405-408 and 474-477) and serves one label or convert call after   *)
(* the other.                                                              *)
(***************************************************************************)
MaxSentLen == 2
MaxSents == 2

SentChars == {"a", "1", "$", " "}

\* clean_text changes the entity "a’" of the second sentence
BatchSentences == {Str("$1"), <<"a", RSQUO>>, Str(" "), None}

SentenceLists ==
    {<<s>> : s \in StringsUpTo(SentChars, MaxSentLen)}
        \cup UNION {[1..k -> BatchSentences] : k \in 0..MaxSents}

FastFns == {"label_entities_fast", "fast.convert_to_spacy_format"}
SmartFns == {"label_entities_smart", "smart.convert_to_spacy_format"}
ConvertFns == {"fast.convert_to_spacy_format", "smart.convert_to_spacy_format"}

InitProcess ==
    /\ pc = "idle"
    /\ fn = "none"
    /\ raw = <<>>
    /\ label = "NONE"
    /\ ret = <<>>
    /\ NoProcess

Idle == pc = "idle"

\* the pipeline objects this process holds
LoadedModels == {nlp, smart_nlp} \ {None}

\* spacy.load("en_core_web_sm") returns a new object
spacy_load == Model(Cardinality(LoadedModels) + 1)

\* labeling_fast.py lines 10-17: the model loads, or spacy.load raises
\* OSError and the module goes on without it
ImportLabelingFast ==
    /\ Idle
    /\ "labeling_fast" \notin imported
    /\ imported' = imported \cup {"labeling_fast"}
    /\ \/ nlp' = spacy_load /\ SPACY_AVAILABLE' = TRUE
       \/ nlp' = None /\ SPACY_AVAILABLE' = FALSE
    /\ UNCHANGED <<appVars, pc, fn, pureVars, smart_nlp, callVars>>

\* labeling_smart.py lines 15-20
ImportLabelingSmart ==
    /\ Idle
    /\ "labeling_smart" \notin imported
    /\ imported' = imported \cup {"labeling_smart"}
    /\ \/ smart_nlp' = spacy_load
       \/ smart_nlp' = None
    /\ UNCHANGED <<appVars, pc, fn, pureVars, SPACY_AVAILABLE, nlp, callVars>>

\* a caller passes a sentence list to one of the four functions
Call ==
    /\ Idle
    /\ \E f \in FastFns \cup SmartFns, sents \in SentenceLists :
          /\ f \in FastFns => "labeling_fast" \in imported
          /\ f \in SmartFns => "labeling_smart" \in imported
          /\ fn' = f
          /\ sentences' = sents
    /\ pc' = "loop"
    /\ idx' = 0
    /\ results' = <<>>
    /\ path' = <<>>
    /\ spacy_format' = None
    /\ UNCHANGED <<appVars, pureVars, moduleVars>>

InLoop == pc = "loop" /\ idx < Len(sentences)

sentence == sentences[idx + 1]

\* a variant that puts the entities of the sentence before the earlier ones
Extend_prepend(entities, branch) ==
    /\ results' = entities \o results
    /\ path' = Append(path, branch)
    /\ idx' = idx + 1
    /\ UNCHANGED <<appVars, pc, fn, pureVars, moduleVars, sentences, spacy_format>>

\* the loop body has appended entities to results
Extend(entities, branch) ==
    /\ results' = results \o entities
    /\ path' = Append(path, branch)
    /\ idx' = idx + 1
    /\ UNCHANGED <<appVars, pc, fn, pureVars, moduleVars, sentences, spacy_format>>

\* a variant that skips an element that is no str
NotAString_skip ==
    /\ InLoop
    /\ sentence = None
    /\ Extend(<<>>, "SKIP")

\* sentence.strip() on an element that is no str raises outside the try
NotAString ==
    /\ InLoop
    /\ sentence = None
    /\ pc' = "raised"
    /\ UNCHANGED <<appVars, fn, pureVars, moduleVars, callVars>>

\* lines 32-33 (smart: 143-144)
SkipBlank ==
    /\ InLoop
    /\ sentence # None
    /\ is_blank(sentence)
    /\ Extend(<<>>, "SKIP")

Takes == InLoop /\ sentence # None /\ ~is_blank(sentence)

\* lines 37-64: the recognizer returns doc.ents
FastPrimary ==
    /\ Takes
    /\ fn \in FastFns
    /\ use_primary
    /\ \E ents \in DocEnts(sentence) :
          Extend(primary_entities(sentence, ents), "PRIMARY")

\* lines 65-68: nlp(sentence) or the loop raises after the entities in
\* seen were handled
FastPrimaryRaises ==
    /\ Takes
    /\ fn \in FastFns
    /\ use_primary
    /\ \E seen \in DocEnts(sentence) :
          Extend(on_exception(sentence, primary_entities(sentence, seen)),
                 "RAISED")

\* lines 69-71
FastFallback ==
    /\ Takes
    /\ fn \in FastFns
    /\ ~use_primary
    /\ Extend(extract_entities_fallback(sentence), "FALLBACK")

\* labeling_smart.py lines 150-177 and 194-201
SmartPrimary ==
    /\ Takes
    /\ fn \in SmartFns
    /\ smart_nlp # None
    /\ \E ents \in DocEnts(sentence) :
          Extend(smart_primary_entities(sentence, ents)
                           \o <<category_record(sentence)>>, "PRIMARY")

\* labeling_smart.py lines 178-185: the handler appends a SENTENCE record
SmartPrimaryRaises ==
    /\ Takes
    /\ fn \in SmartFns
    /\ smart_nlp # None
    /\ \E seen \in DocEnts(sentence) :
          Extend(smart_primary_entities(sentence, seen)
                           \o <<sentence_record(sentence), category_record(sentence)>>,
                 "RAISED")

\* labeling_smart.py lines 186-192
SmartNoModel ==
    /\ Takes
    /\ fn \in SmartFns
    /\ smart_nlp = None
    /\ Extend(<<sentence_record(sentence), category_record(sentence)>>,
              "NOMODEL")

\* label_entities_fast / label_entities_smart return results
Return ==
    /\ pc = "loop"
    /\ idx = Len(sentences)
    /\ fn \notin ConvertFns
    /\ pc' = "returned"
    /\ UNCHANGED <<appVars, fn, pureVars, moduleVars, callVars>>

\* convert_to_spacy_format groups labeled_data and returns
Convert ==
    /\ pc = "loop"
    /\ idx = Len(sentences)
    /\ fn \in ConvertFns
    /\ spacy_format' = group_by_text(<<>>, results)
    /\ pc' = "returned"
    /\ UNCHANGED <<appVars, fn, pureVars, moduleVars, sentences, idx, results, path>>

\* the caller is done with what the call returned or raised, and the
\* call's locals are gone
Release ==
    /\ pc \in {"returned", "raised"}
    /\ pc' = "idle"
    /\ fn' = "none"
    /\ sentences' = <<>>
    /\ idx' = 0
    /\ results' = <<>>
    /\ path' = <<>>
    /\ spacy_format' = None
    /\ UNCHANGED <<appVars, pureVars, moduleVars>>

NextProcess ==
    \/ ImportLabelingFast
    \/ ImportLabelingSmart
    \/ Call
    \/ NotAString
    \/ SkipBlank
    \/ FastPrimary
    \/ FastPrimaryRaises
    \/ FastFallback
    \/ SmartPrimary
    \/ SmartPrimaryRaises
    \/ SmartNoModel
    \/ Return
    \/ Convert
    \/ Release

Spec == InitProcess /\ [][NextProcess]_vars

(***************************************************************************)
(* Claims about clean_text                                                 *)
(***************************************************************************)
\* C1: normalization is idempotent: applying clean_text to its own result
\* gives that result again, for labeling_fast.clean_text,
\* labeling_smart.clean_text and preprocess.clean_text, the empty string
\* included.
C1_Idempotent ==
    pc = "clean" =>
        \A k \in 2..Len(ret) : ret[k] = ret[k - 1]

\* a run of labeling_fast.clean_text that changed its argument and was
\* applied again
C1_Witness ==
    /\ pc = "clean"
    /\ fn = "labeling_fast"
    /\ Len(ret) = 2
    /\ ret[1] # raw
    /\ ret[1] # <<>>

RepairGlyphs == {POUND, EURO, YEN, CENT, DEGREE, PLUSMINUS, SECTION}

HasMojibakePair(text) ==
    \E i \in 1..(Len(text) - 1) : text[i] = A_CIRC /\ text[i + 1] \in RepairGlyphs

\* C9: encoding repair: labeling_fast.clean_text collapses a U+00C2
\* artifact in front of a currency or symbol glyph to the glyph alone, so
\* its result never holds such a pair, and the two texts of the tests come
\* out repaired.
C9_EncodingRepair ==
    (pc = "clean" /\ fn = "labeling_fast" /\ ret # <<>>) =>
        /\ ~HasMojibakePair(ret[1])
        /\ raw = <<A_CIRC, POUND>> \o Str("60,000")
              => ret[1] = <<POUND>> \o Str("60,000")
        /\ raw = <<A_CIRC, POUND>> \o Str("5.60 an hour")
              => ret[1] = <<POUND>> \o Str("5.60 an hour")

(***************************************************************************)
(* Claims about is_meaningful_entity                                       *)
(***************************************************************************)
Called == pc = "filter" /\ ret # <<>>

MoneySymbols == {"$", POUND, EURO, YEN}

MoneyWords == {"dollar", "pound", "euro", "yen", "usd", "gbp", "eur", "jpy"}

\* C6: filter monotonicity for MONEY: a text accepted with the label MONEY
\* holds one of the four currency symbols or, in any letter case, one of
\* the currency names.
C6_MoneyMonotone ==
    (Called /\ label = "MONEY" /\ ret[1]) =>
        \/ \E i \in 1..Len(raw) : raw[i] \in MoneySymbols
        \/ \E w \in MoneyWords : Contains(lower(raw), Str(w))

\* an accepted MONEY text that names a currency and holds no symbol
C6_Witness ==
    /\ Called /\ label = "MONEY" /\ ret[1]
    /\ \A i \in 1..Len(raw) : raw[i] \notin MoneySymbols
    /\ Contains(lower(raw), Str("usd"))

\* C7: stop-word rejection: whatever the label, a text whose normalized
\* (clean_text), lower-cased form is a stop word is rejected.
C7_StopWordRejected ==
    (Called /\ lower(clean_text(raw)) \in stop_words) => ~ret[1]

\* the same for a text that is already normalized
C7_NormalizedStopWordRejected ==
    (Called /\ clean_text(raw) = raw /\ lower(raw) \in stop_words) => ~ret[1]

OnlyDigitsAndNonWord(text) ==
    \A i \in 1..Len(text) : text[i] \in Digits \/ ~IsWord(text[i])

MoneyException(text) ==
    \/ text \in {<<c>> : c \in MoneySymbols}
    \/ /\ OnlyDigitsAndNonWord(text)
       /\ \E i \in 1..Len(text) : text[i] \in MoneySymbols

\* C8: the MONEY exceptions come before the generic rules: a bare currency
\* symbol, or a text of digits and non-word characters that holds a
\* currency symbol, is accepted exactly when the label is MONEY; any other
\* text of at most one character is rejected whatever the label.
C8_MoneyExceptions ==
    Called =>
        /\ MoneyException(raw) => (ret[1] <=> label = "MONEY")
        /\ (Len(raw) <= 1 /\ ~MoneyException(raw)) => ~ret[1]

\* the bare dollar sign, accepted as MONEY
C8_Witness ==
    /\ Called /\ raw = <<"$">> /\ label = "MONEY" /\ ret[1]

\* C10: ambiguous multi-word spans are filtered: "the end of", "end of",
\* "the beginning" and "a period" labeled DATE are rejected.
C10_AmbiguousRejected ==
    (Called /\ label = "DATE"
        /\ raw \in {Str("the end of"), Str("end of"), Str("the beginning"),
                    Str("a period")})
    => ~ret[1]

(***************************************************************************)
(* Claims about the labeling calls, checked under Spec.                    *)
(***************************************************************************)
Converted == pc = "returned" /\ fn \in ConvertFns

\* the records among the first n of results that produce a span of the
\* SpanRecord for text
RECURSIVE ProducersUpTo(_, _)
ProducersUpTo(text, n) ==
    IF n = 0 THEN <<>>
    ELSE ProducersUpTo(text, n - 1) \o
             (IF results[n].text = text /\ Contains(text, results[n].entity)
              THEN <<results[n]>> ELSE <<>>)

Producers(text) == ProducersUpTo(text, Len(results))

\* C2: every span (s, e, label) of every SpanRecord (T, spans) that
\* convert_to_spacy_format returns, in the fast and in the smart module, has
\* 0 <= s <= e <= len(T), and T[s:e] is the entity text, and label the
\* label, of the accepted record that produced the span.
C2_SpanCorrect ==
    Converted =>
        \A k \in 1..Len(spacy_format) :
            LET T == spacy_format[k].text
                spans == spacy_format[k].entities
                from == Producers(T)
            IN  /\ Len(spans) = Len(from)
                /\ \A j \in 1..Len(spans) :
                      /\ 0 <= spans[j][1]
                      /\ spans[j][1] <= spans[j][2]
                      /\ spans[j][2] <= Len(T)
                      /\ SubSeq(T, spans[j][1] + 1, spans[j][2]) = from[j].entity
                      /\ spans[j][3] = from[j].label

\* a convert call has returned a span that does not start the sentence
C2_Witness ==
    /\ Converted
    /\ \E k \in 1..Len(spacy_format) :
          \E j \in 1..Len(spacy_format[k].entities) :
              spacy_format[k].entities[j][1] > 0

ModelRaises == fn \in FastFns /\ InLoop /\ path' = Append(path, "RAISED")

\* C3: when the loaded model raises on sentence i of a label_entities_fast
\* batch, the records added for sentence i are exactly the regex fallback's
\* records for it (no record the primary loop had accepted is kept), the
\* records of the sentences before i stay, the call goes on to sentence
\* i + 1 instead of raising, and the model stays in use: no later sentence
\* of the call is handed to the fallback because of the failure.
C3_FailureIsolation ==
    /\ [][ModelRaises =>
             /\ results' = results \o extract_entities_fallback(sentence)
             /\ pc' = "loop"
             /\ idx' = idx + 1
             /\ nlp' = nlp
             /\ SPACY_AVAILABLE' = SPACY_AVAILABLE]_vars
    /\ [](fn \in FastFns /\ (\E k \in 1..Len(path) : path[k] = "RAISED") =>
             /\ use_primary
             /\ \A k \in 1..Len(path) : path[k] \in {"SKIP", "PRIMARY", "RAISED"})

\* a batch whose first sentence raised in the model and whose second
\* sentence went through the primary path and gave a record
C3_Witness ==
    /\ fn = "label_entities_fast"
    /\ pc = "returned"
    /\ Len(path) = 2
    /\ path[1] = "RAISED"
    /\ path[2] = "PRIMARY"
    /\ \E k \in 1..Len(results) : results[k].text = sentences[2]

LoadFailed == "labeling_fast" \in imported /\ nlp = None

\* the fallback's records for the first n sentences
RECURSIVE FallbackRecords(_, _)
FallbackRecords(sents, n) ==
    IF n = 0 THEN <<>>
    ELSE FallbackRecords(sents, n - 1) \o
             (IF is_blank(sents[n]) THEN <<>> ELSE extract_entities_fallback(sents[n]))

\* C4: when the model could not be loaded, the import does not raise, the
\* model stays unavailable for the rest of the process, and every call of
\* label_entities_fast handles every non-blank sentence by the regex
\* fallback only: the primary path is never entered.
C4_ModelUnavailable ==
    /\ [][("labeling_fast" \notin imported /\ "labeling_fast" \in imported')
             => pc' = pc]_vars
    /\ [][LoadFailed => LoadFailed' /\ ~SPACY_AVAILABLE']_vars
    /\ [](LoadFailed /\ fn \in FastFns =>
             /\ \A k \in 1..Len(path) : path[k] \in {"SKIP", "FALLBACK"}
             /\ \A k \in 1..Len(path) :
                   path[k] = "FALLBACK" <=> ~is_blank(sentences[k])
             /\ results = FallbackRecords(sentences, Len(path)))

\* without the model, a call has returned the fallback's records of a batch
C4_Witness ==
    /\ LoadFailed
    /\ fn = "label_entities_fast"
    /\ pc = "returned"
    /\ Len(path) = 2
    /\ path[2] = "FALLBACK"
    /\ results # <<>>

Filtered(r) ==
    IF fn \in SmartFns THEN smart_is_meaningful_entity(r.entity, r.label)
    ELSE is_meaningful_entity(r.entity, r.label)

WholeSentenceLabels ==
    {"SENTENCE", "CATEGORY_GENERAL"} \cup
        {category_keywords[k][1] : k \in 1..Len(category_keywords)}

CategoryLabels == WholeSentenceLabels \ {"SENTENCE"}

RECURSIVE WithoutCategory(_)
WithoutCategory(recs) ==
    IF recs = <<>> THEN <<>>
    ELSE (IF Head(recs).label \in CategoryLabels THEN <<>> ELSE <<Head(recs)>>)
             \o WithoutCategory(Tail(recs))

\* what label_entities_fast may add for a sentence when the recognizer
\* behaves as on the branch: it returns entities, it raises, or it is missing
FastOutputs(s, branch) ==
    IF branch = "SKIP" THEN {<<>>}
    ELSE IF branch = "PRIMARY" THEN {primary_entities(s, e) : e \in DocEnts(s)}
    ELSE {extract_entities_fallback(s)}

\* what label_entities_fast may return for the first n sentences
RECURSIVE FastResults(_, _, _)
FastResults(sents, branches, n) ==
    IF n = 0 THEN {<<>>}
    ELSE {a \o b : a \in FastResults(sents, branches, n - 1),
                   b \in FastOutputs(sents[n], branches[n])}

\* C11: for every sentence list and every behaviour of the recognizer (it
\* returns entities, it raises on a sentence, it is missing), what
\* label_entities_smart returns, without its CATEGORY_* records, is what
\* label_entities_fast returns for the same sentences and behaviour.
C11_SmartIsFastPlusCategory ==
    (pc = "returned" /\ fn = "label_entities_smart") =>
        WithoutCategory(results) \in FastResults(sentences, path, Len(path))

SmartAdds == fn \in SmartFns /\ InLoop /\ idx' = idx + 1

Added == SubSeq(results', Len(results) + 1, Len(results'))

C11_AgreeWhenModelAnswers ==
    (/\ pc = "returned"
     /\ fn = "label_entities_smart"
     /\ \A k \in 1..Len(path) : path[k] \in {"SKIP", "PRIMARY"}) =>
        WithoutCategory(results) \in FastResults(sentences, path, Len(path))

(***************************************************************************)
(* preprocess.split_sentences when sent_tokenize raises: lines 49-52       *)
(***************************************************************************)
Terminators == {".", "!", "?"}

\* re.split(r'[.!?]+', text): the pieces between the runs of terminators,
\* the empty pieces at the ends included
RECURSIVE re_split_from(_, _, _)
re_split_from(text, i, piece) ==
    IF i > Len(text) THEN <<piece>>
    ELSE IF text[i] \in Terminators
    THEN IF i < Len(text) /\ text[i + 1] \in Terminators
         THEN re_split_from(text, i + 1, piece)
         ELSE <<piece>> \o re_split_from(text, i + 1, <<>>)
    ELSE re_split_from(text, i + 1, Append(piece, text[i]))

re_split(text) == re_split_from(text, 1, <<>>)

\* line 52: [s.strip() for s in sentences if s.strip()]
RECURSIVE strip_nonempty(_)
strip_nonempty(pieces) ==
    IF pieces = <<>> THEN <<>>
    ELSE (IF strip(Head(pieces)) = <<>> THEN <<>> ELSE <<strip(Head(pieces))>>)
             \o strip_nonempty(Tail(pieces))

\* lines 42-43 and 49-54
split_sentences_fallback(text) ==
    IF text = <<>> THEN <<>> ELSE strip_nonempty(re_split(text))

MaxSplitLen == 4

SplitChars == {"a", "b", ".", "?", " "}

SplitInputs == StringsUpTo(SplitChars, MaxSplitLen)

InitSplit ==
    /\ pc = "split"
    /\ fn = "split_sentences"
    /\ raw \in SplitInputs
    /\ label = "NONE"
    /\ ret = <<>>
    /\ NoProcess

\* sent_tokenize raised and split_sentences returns the regex split
SplitFallback ==
    /\ pc = "split"
    /\ ret = <<>>
    /\ ret' = <<split_sentences_fallback(raw)>>
    /\ UNCHANGED <<appVars, pc, fn, raw, label, moduleVars, callVars>>

NextSplit == SplitFallback

SpecSplit == InitSplit /\ [][NextSplit]_vars

(***************************************************************************)
(* Claims about split_sentences, checked under SpecSplit.                  *)
(***************************************************************************)
RECURSIVE Concat(_)
Concat(seqs) == IF seqs = <<>> THEN <<>> ELSE Head(seqs) \o Concat(Tail(seqs))

RECURSIVE Without(_, _)
Without(text, chars) ==
    IF text = <<>> THEN <<>>
    ELSE (IF Head(text) \in chars THEN <<>> ELSE <<Head(text)>>)
             \o Without(Tail(text), chars)

Split == fn = "split_sentences" /\ ret # <<>>

\* C13: on the regex path of split_sentences the returned sentences, put
\* one after the other, hold every non-whitespace character of the input
\* in the input's order, and every returned sentence is trimmed and not
\* empty.
C13_NoCharacterLoss ==
    Split =>
        /\ Without(Concat(ret[1]), SpaceChars) = Without(raw, SpaceChars)
        /\ \A k \in 1..Len(ret[1]) :
              ret[1][k] # <<>> /\ strip(ret[1][k]) = ret[1][k]

\* the part of C13 the code keeps: only the terminators the split consumes
\* are lost, and the sentences are trimmed and not empty
C13_OnlyTerminatorsLost ==
    Split =>
        /\ Without(Concat(ret[1]), SpaceChars)
               = Without(raw, SpaceChars \cup Terminators)
        /\ \A k \in 1..Len(ret[1]) :
              ret[1][k] # <<>> /\ strip(ret[1][k]) = ret[1][k]

(***************************************************************************)
(* Claims about the grouping of convert_to_spacy_format, checked under     *)
(* Spec.                                                                   *)
(***************************************************************************)
\* C14: convert_to_spacy_format returns one SpanRecord for each distinct
\* sentence text that has an accepted record, also when none of its
\* records gave a span, and none for any other sentence; a sentence text
\* that occurs several times has one SpanRecord, which holds the spans of
\* all its occurrences in the order the records came.
C14_OneRecordPerText ==
    Converted =>
        /\ \A j, k \in 1..Len(spacy_format) :
              spacy_format[j].text = spacy_format[k].text => j = k
        /\ {spacy_format[k].text : k \in 1..Len(spacy_format)}
               = {results[k].text : k \in 1..Len(results)}
        /\ \A k \in 1..Len(spacy_format) :
              LET spans == spacy_format[k].entities
                  from == Producers(spacy_format[k].text)
              IN  /\ Len(spans) = Len(from)
                  /\ \A j \in 1..Len(spans) : spans[j][3] = from[j].label

\* a sentence given twice, with one entity accepted at each occurrence, has
\* one SpanRecord with the two spans
C14_Witness ==
    /\ Converted
    /\ Len(sentences) = 2
    /\ sentences[1] = sentences[2]
    /\ Len(results) = 2
    /\ results[1].entity # results[2].entity
    /\ Len(spacy_format) = 1
    /\ Len(spacy_format[1].entities) = 2

\* the records of results whose entity occurs in their sentence
RECURSIVE LocatedUpTo(_)
LocatedUpTo(n) ==
    IF n = 0 THEN <<>>
    ELSE LocatedUpTo(n - 1) \o
             (IF Contains(results[n].text, results[n].entity)
              THEN <<results[n]>> ELSE <<>>)

\* the span list of the SpanRecord for text; none if there is no SpanRecord
SpansOf(text, format) ==
    IF \E k \in 1..Len(format) : format[k].text = text
    THEN format[CHOOSE k \in 1..Len(format) : format[k].text = text].entities
    ELSE <<>>

\* C15: a record whose entity text does not occur in its sentence gets no
\* span, the call returns all the same, and the spans of the other
\* records, of the same and of other sentences, are what they are without
\* that record.
C15_UnlocatedDropped ==
    Converted =>
        /\ \A k \in 1..Len(results) :
              SpansOf(results[k].text, spacy_format)
                  = SpansOf(results[k].text,
                            group_by_text(<<>>, LocatedUpTo(Len(results))))
        /\ \A k \in 1..Len(spacy_format) :
              \A j \in 1..Len(spacy_format[k].entities) :
                  spacy_format[k].entities[j][1] >= 0

\* a convert call has dropped a record whose entity clean_text changed and
\* has kept a span of the same sentence and a span of another sentence
C15_Witness ==
    /\ Converted
    /\ Len(spacy_format) = 2
    /\ spacy_format[1].entities # <<>>
    /\ spacy_format[2].entities # <<>>
    /\ \E k \in 1..Len(results) : ~Contains(results[k].text, results[k].entity)

(***************************************************************************)
(* Claims about the flat output of label_entities_fast, checked under Spec *)
(***************************************************************************)
FastAdds == fn \in FastFns /\ InLoop /\ idx' = idx + 1

\* the entities of ents that give an accepted candidate
Kept(s, ents) ==
    {k \in 1..Len(ents) :
        /\ strip(ent_text(s, ents[k])) # <<>>
        /\ is_meaningful_entity(candidate_text(s, ents[k]), ents[k].label_)}

\* recs holds one record for each accepted candidate of ents, in their order
OnePerAccepted(recs, s, ents) ==
    /\ Len(recs) = Cardinality(Kept(s, ents))
    /\ \A j \in 1..Len(recs) :
          \E k \in Kept(s, ents) :
              /\ Cardinality({i \in Kept(s, ents) : i <= k}) = j
              /\ recs[j] = Record(s, candidate_text(s, ents[k]), ents[k].label_)

\* C16: label_entities_fast returns one record for each accepted candidate;
\* the text of a record is the sentence it comes from; the records of a
\* sentence follow the records of the sentences before it and keep the
\* order of extraction; a blank sentence adds no record.
C16_OrderAndCardinality ==
    [][FastAdds =>
          /\ SubSeq(results', 1, Len(results)) = results
          /\ \A k \in 1..Len(Added) : Added[k].text = sentence
          /\ is_blank(sentence) => Added = <<>>
          /\ Last(path') = "PRIMARY" =>
                \E ents \in DocEnts(sentence) : OnePerAccepted(Added, sentence, ents)
          /\ Last(path') \in {"RAISED", "FALLBACK"} =>
                Added = extract_entities_fallback(sentence)]_vars

\* a batch of two sentences has returned a record of the first sentence and
\* then a record of the second
C16_Witness ==
    /\ fn = "label_entities_fast"
    /\ pc = "returned"
    /\ sentences = <<<<"a", RSQUO>>, Str("$1")>>
    /\ path = <<"PRIMARY", "PRIMARY">>
    /\ Len(results) = 2
    /\ results[1].text = sentences[1]
    /\ results[2].text = sentences[2]

(***************************************************************************)
(* Runs of extract_entities_fallback on bounded sentences and on the       *)
(* sentence of test_fixes.py line 128.                                     *)
(***************************************************************************)
MaxFallbackLen == 3

FallbackChars == {"$", "1", ",", " "}

\* "Â£60,000, Â£2,000, Â£5.60 an hour"
ProblematicText ==
    <<A_CIRC, POUND>> \o Str("60,000, ") \o <<A_CIRC, POUND>> \o Str("2,000, ")
        \o <<A_CIRC, POUND>> \o Str("5.60 an hour")

\* one sentence for each family of patterns of lines 167-215, with the text
\* its pattern matches and the label of the family
FamilyCases ==
    {[family |-> "numeric date", sentence |-> Str("On 12/05/2023"),
      entity |-> Str("12/05/2023"), label |-> "DATE"],
     [family |-> "year", sentence |-> Str("In 2023"),
      entity |-> Str("2023"), label |-> "DATE"],
     [family |-> "month-name date", sentence |-> Str("On Jan 5, 2023"),
      entity |-> Str("Jan 5, 2023"), label |-> "DATE"],
     [family |-> "email", sentence |-> Str("Mail a@b.co"),
      entity |-> Str("a@b.co"), label |-> "EMAIL"],
     [family |-> "phone", sentence |-> Str("Call 555-123-4567"),
      entity |-> Str("555-123-4567"), label |-> "PHONE"],
     [family |-> "money", sentence |-> Str("Pay $5.50"),
      entity |-> Str("$5.50"), label |-> "MONEY"]}

FallbackInputs ==
    StringsUpTo(FallbackChars, MaxFallbackLen)
        \cup {ProblematicText, clean_text(ProblematicText)}
        \cup {c.sentence : c \in FamilyCases}

InitFallback ==
    /\ pc = "fallback"
    /\ fn = "extract_entities_fallback"
    /\ raw \in FallbackInputs
    /\ label = "NONE"
    /\ ret = <<>>
    /\ NoProcess

\* extract_entities_fallback(raw) returns its list of records
ExtractEntitiesFallback ==
    /\ pc = "fallback"
    /\ ret = <<>>
    /\ ret' = <<extract_entities_fallback(raw)>>
    /\ UNCHANGED <<appVars, pc, fn, raw, label, moduleVars, callVars>>

NextFallback == ExtractEntitiesFallback

SpecFallback == InitFallback /\ [][NextFallback]_vars

(***************************************************************************)
(* Claims about extract_entities_fallback, checked under SpecFallback.     *)
(***************************************************************************)
RECURSIVE MoneyEntities(_)
MoneyEntities(recs) ==
    IF recs = <<>> THEN <<>>
    ELSE (IF Head(recs).label = "MONEY" THEN <<Head(recs).entity>> ELSE <<>>)
             \o MoneyEntities(Tail(recs))

\* C17: for the sentence "Â£60,000, Â£2,000, Â£5.60 an hour" the regex
\* fallback of fast mode gives exactly 3 MONEY records, with the entity
\* texts "£60,000", "£2,000" and "£5.60" (or "£5.60 an hour"): no entity
\* text carries the comma that follows the amount.
C17_ThreeMoneyEntities ==
    (fn = "extract_entities_fallback" /\ raw = ProblematicText /\ ret # <<>>) =>
        LET money == MoneyEntities(ret[1])
        IN  /\ Len(money) = 3
            /\ money[1] = <<POUND>> \o Str("60,000")
            /\ money[2] = <<POUND>> \o Str("2,000")
            /\ money[3] \in {<<POUND>> \o Str("5.60"),
                             <<POUND>> \o Str("5.60 an hour")}

\* the part of C17 the code keeps: three MONEY records, one for each amount
C17_ThreeMoneyRecords ==
    (fn = "extract_entities_fallback" /\ raw = ProblematicText /\ ret # <<>>) =>
        /\ Len(MoneyEntities(ret[1])) = 3
        /\ Len(ret[1]) = 3

(***************************************************************************)
(* Claims about the recognizer object, checked under Spec.                 *)
(***************************************************************************)
\* C18: over any sequence of fast and smart runs of one process the
\* recognizer model is loaded at most once, so the process holds at most
\* one pipeline object, which every later call uses, and no call changes
\* or replaces it.
C18_RecognizerSingleton ==
    /\ [](Cardinality(LoadedModels) <= 1)
    /\ [][(nlp # None => nlp' = nlp) /\ (smart_nlp # None => smart_nlp' = smart_nlp)]_vars

\* the part of C18 the code keeps: each labeling module loads when it is
\* imported and at no other time, and keeps what the load gave
C18_OncePerModule ==
    /\ [][("labeling_fast" \in imported) => (nlp' = nlp)]_vars
    /\ [][("labeling_smart" \in imported) => (smart_nlp' = smart_nlp)]_vars
    /\ []("labeling_fast" \notin imported => nlp = None)
    /\ []("labeling_smart" \notin imported => smart_nlp = None)

(***************************************************************************)
(* Claims about the result of labeling_fast.clean_text, checked under      *)
(* SpecClean.                                                              *)
(***************************************************************************)
SmartQuotes == {LSQUO, RSQUO, SBQUO, LDQUO, RDQUO, BDQUO}

NotNormalized == {NBSP, NDASH, MDASH, HELLIP} \cup SmartQuotes

\* C20: whatever the input, the result of labeling_fast.clean_text holds
\* no non-breaking space, no smart quote (U+2018, U+2019, U+201A, U+201C,
\* U+201D, U+201E), no en or em dash and no ellipsis glyph, no two
\* whitespace characters in a row, and no whitespace at its start or end.
C20_NormalizedText ==
    (pc = "clean" /\ fn = "labeling_fast") =>
        \A k \in 1..Len(ret) :
            /\ \A i \in 1..Len(ret[k]) : ret[k][i] \notin NotNormalized
            /\ \A i \in 1..(Len(ret[k]) - 1) :
                  ~(IsSpace(ret[k][i]) /\ IsSpace(ret[k][i + 1]))
            /\ ret[k] # <<>> =>
                  ~IsSpace(ret[k][1]) /\ ~IsSpace(ret[k][Len(ret[k])])

\* a text that starts with whitespace and holds a glyph of the list has
\* been cleaned to a text that is not empty
C20_Witness ==
    /\ pc = "clean"
    /\ fn = "labeling_fast"
    /\ ret # <<>>
    /\ ret[1] # <<>>
    /\ Len(raw) = MaxCleanLen
    /\ IsSpace(raw[1])
    /\ \E i \in 1..Len(raw) : raw[i] \in SmartQuotes

(***************************************************************************)
(* app.generate_dataset, lines 385-569: two requests served at the same    *)
(* time.  What a run computes from its own locals is one step; each        *)
(* access to the working directory, which the workers share, is a step.   *)
(***************************************************************************)
\* what label_entities_fast can return for sents: with the model, each
\* sentence gives the accepted entities of some doc.ents or, when the
\* recognizer raises, the fallback's records
RECURSIVE label_entities_fast(_, _)
label_entities_fast(sents, available) ==
    IF sents = <<>> THEN {<<>>}
    ELSE LET s == Head(sents)
             adds ==
                 IF is_blank(s) THEN {<<>>}
                 ELSE IF available
                 THEN {primary_entities(s, e) : e \in DocEnts(s)}
                          \cup {on_exception(s, primary_entities(s, e)) :
                                   e \in DocEnts(s)}
                 ELSE {extract_entities_fallback(s)}
         IN  {a \o rest : a \in adds,
                          rest \in label_entities_fast(Tail(sents), available)}

\* what label_entities_smart can return for sents
RECURSIVE label_entities_smart(_, _)
label_entities_smart(sents, available) ==
    IF sents = <<>> THEN {<<>>}
    ELSE LET s == Head(sents)
             adds ==
                 IF is_blank(s) THEN {<<>>}
                 ELSE IF available
                 THEN {smart_primary_entities(s, e) \o <<category_record(s)>> :
                          e \in DocEnts(s)}
                          \cup {smart_primary_entities(s, e)
                                    \o <<sentence_record(s), category_record(s)>> :
                                   e \in DocEnts(s)}
                 ELSE {<<sentence_record(s), category_record(s)>>}
         IN  {a \o rest : a \in adds,
                          rest \in label_entities_smart(Tail(sents), available)}

\* lines 434-435 and 503-504; split_sentences on its regex path
run_sentences(text) == split_sentences_fallback(preprocess_clean_text(text))

\* lines 440 and 511: what the run's labeling or convert call can return
run_labeled(mode, output_format, text, available) ==
    LET flat == IF mode = "smart"
                THEN label_entities_smart(run_sentences(text), available)
                ELSE label_entities_fast(run_sentences(text), available)
    IN  IF output_format = "spacy"
        THEN {group_by_text(<<>>, labeled) : labeled \in flat}
        ELSE flat

\* json.dumps (line 443), export_to_json (line 521), export_to_csv (line
\* 529): the bytes written for data in the format
serialize(output_format, data) == [format |-> output_format, data |-> data]

\* a variant that names the temporary file without the id of the run
temp_file_path_shared(file_id, output_format) == <<"temp", output_format>>

\* lines 520 and 528: f"temp_{file_id}.json", f"temp_{file_id}.csv"
temp_file_path(file_id, output_format) == <<"temp_", file_id, output_format>>

UuidValues == {"uuid-1", "uuid-2"}

RunTexts == {Str("$"), Str("a")}

RunModes == {"fast", "smart"}

RunFormats == {"csv", "json", "spacy"}

exists(file_path) == \E f \in files : f.path = file_path

read(file_path) == (CHOOSE f \in files : f.path = file_path).content

\* open(path, "w") and write: the file holds content, whatever it held
written(file_path, content) ==
    {f \in files : f.path # file_path}
        \cup {[path |-> file_path, content |-> content]}

\* lines 559-569: the handler of generate_dataset answers with an error
error_response == [format |-> "error", data |-> <<>>]

InitRuns ==
    /\ pc = "serve"
    /\ fn = "generate_dataset"
    /\ raw = <<>>
    /\ label = "NONE"
    /\ ret = <<>>
    /\ NoProcess

\* uuid.uuid4(): a value no earlier call has returned
uuid4 == CHOOSE id \in UuidValues \ uuids : TRUE

run_module(mode) == IF mode = "smart" THEN "labeling_smart" ELSE "labeling_fast"

\* line 37 of labeling_fast.py, line 150 of labeling_smart.py
model_available(mode) == IF mode = "smart" THEN smart_nlp # None ELSE use_primary

temp_file_of(run) == temp_file_path(run.file_id, run.output_format)

\* lines 394-447 and 470-513: the request comes with its text, mode and
\* format; the run imports the labeling module of its mode (the first
\* import loads the model, or fails to), cleans, splits, takes a file id
\* and labels; for the spaCy format it answers at once (lines 443-469)
Begin(r) ==
    /\ pc = "serve"
    /\ runs[r].pc = "idle"
    /\ \E text \in RunTexts, mode \in RunModes, output_format \in RunFormats,
          ok \in BOOLEAN :
          LET first == run_module(mode) \notin imported
              available == IF first THEN ok ELSE model_available(mode)
              loaded == IF ok THEN spacy_load ELSE None
          IN  /\ imported' = imported \cup {run_module(mode)}
              /\ nlp' = IF first /\ mode = "fast" THEN loaded ELSE nlp
              /\ SPACY_AVAILABLE' =
                     IF first /\ mode = "fast" THEN ok ELSE SPACY_AVAILABLE
              /\ smart_nlp' = IF first /\ mode = "smart" THEN loaded ELSE smart_nlp
              /\ \E data \in run_labeled(mode, output_format, text, available) :
                    runs' = [runs EXCEPT ![r] =
                        [pc |-> IF output_format = "spacy" THEN "done" ELSE "export",
                         text |-> text,
                         mode |-> mode,
                         output_format |-> output_format,
                         file_id |-> uuid4,
                         labeled_data |-> data,
                         file_content |->
                             IF output_format = "spacy"
                             THEN serialize(output_format, data) ELSE None,
                         response |->
                             IF output_format = "spacy"
                             THEN serialize(output_format, data) ELSE None]]
    /\ uuids' = uuids \cup {uuid4}
    /\ UNCHANGED <<svcVars, pc, fn, pureVars, callVars, files>>

\* lines 521 and 529: export_to_json / export_to_csv write the temporary file
Export(r) ==
    /\ pc = "serve"
    /\ runs[r].pc = "export"
    /\ files' = written(temp_file_of(runs[r]),
                        serialize(runs[r].output_format, runs[r].labeled_data))
    /\ runs' = [runs EXCEPT ![r].pc = "read"]
    /\ UNCHANGED <<svcVars, pc, fn, pureVars, moduleVars, callVars, uuids>>

\* lines 522-523 and 530-531: open and read the temporary file; a missing
\* file raises, and the handler of line 559 answers with the error
ReadBack(r) ==
    /\ pc = "serve"
    /\ runs[r].pc = "read"
    /\ runs' = [runs EXCEPT ![r] =
                   IF exists(temp_file_of(runs[r]))
                   THEN [@ EXCEPT !.pc = "remove",
                                  !.file_content = read(temp_file_of(runs[r]))]
                   ELSE [@ EXCEPT !.pc = "done", !.response = error_response]]
    /\ UNCHANGED <<svcVars, pc, fn, pureVars, moduleVars, callVars, files, uuids>>

\* lines 524 and 532, then 534-557: os.remove, and the response with the
\* bytes read; os.remove of a missing file raises
Remove(r) ==
    /\ pc = "serve"
    /\ runs[r].pc = "remove"
    /\ files' = {f \in files : f.path # temp_file_of(runs[r])}
    /\ runs' = [runs EXCEPT ![r] =
                   IF exists(temp_file_of(runs[r]))
                   THEN [@ EXCEPT !.pc = "done",
                                  !.response = runs[r].file_content]
                   ELSE [@ EXCEPT !.pc = "done", !.response = error_response]]
    /\ UNCHANGED <<svcVars, pc, fn, pureVars, moduleVars, callVars, uuids>>

NextRuns == \E r \in RunIds : Begin(r) \/ Export(r) \/ ReadBack(r) \/ Remove(r)

SpecRuns == InitRuns /\ [][NextRuns]_vars

(***************************************************************************)
(* Claims about concurrent runs, checked under SpecRuns.                   *)
(***************************************************************************)
\* what the run returns when no other run is there
Alone(run) == serialize(run.output_format, run.labeled_data)

\* C19: when two runs of generate_dataset interleave, each returns the
\* dataset it returns when it runs alone: the labeling of its own text in
\* its own mode, in its own format; a temporary file belongs to one run,
\* holds what that run exported, and no other run writes, reads or removes
\* it.
C19_NoCrossRunEffects ==
    pc = "serve" =>
        /\ \A r \in RunIds :
              /\ runs[r].pc = "done" => runs[r].response = Alone(runs[r])
              /\ runs[r].pc = "remove" => runs[r].file_content = Alone(runs[r])
              /\ runs[r].pc # "idle" =>
                    runs[r].labeled_data \in
                        run_labeled(runs[r].mode, runs[r].output_format,
                                    runs[r].text, model_available(runs[r].mode))
        /\ \A f \in files :
              \E r \in RunIds :
                  /\ runs[r].pc \in {"read", "remove"}
                  /\ f.path = temp_file_of(runs[r])
                  /\ f.content = Alone(runs[r])
                  /\ \A q \in RunIds \ {r} :
                        runs[q].pc # "idle" => temp_file_of(runs[q]) # f.path

\* the two runs have exported different datasets in the same format and
\* neither has read its file yet
C19_Witness ==
    /\ pc = "serve"
    /\ runs["r1"].pc = "read"
    /\ runs["r2"].pc = "read"
    /\ runs["r1"].output_format = runs["r2"].output_format
    /\ runs["r1"].labeled_data # runs["r2"].labeled_data
    /\ Cardinality(files) = 2

(***************************************************************************)
(* cache.CacheManager, lines 15-130.  An entry is modelled by its value    *)
(* and expires_at; created_at, access_count and last_accessed are only     *)
(* read by get_stats.                                                      *)
(***************************************************************************)
MaxTime == 3

MaxTtl == 2

\* line 18: default_ttl, in ticks of the model's clock
default_ttl == 2

CacheKeys == {<<"k1">>, <<"k2">>}

\* a value pickle cannot serialize (a lambda)
Lambda == <<"<lambda>">>

CacheValues == {<<"v1">>, <<"v2">>, Lambda}

Defaults == {None, <<"default">>}

\* the argument ttl of set: 0 also stands for None, line 36 treats them alike
TtlValues == 0 .. MaxTtl

\* lines 41 and 71: pickle.dumps raises for a lambda; loads gives back the
\* value that was dumped
picklable(value) == value # Lambda

pickle_dumps(value) == <<"pickle", value>>

pickle_loads(data) == data[2]

\* dict assignment d[key] = entry, and del d[key]
dict_set(d, key, entry) ==
    [k \in DOMAIN d \cup {key} |-> IF k = key THEN entry ELSE d[k]]

dict_del(d, key) == [k \in DOMAIN d \ {key} |-> d[k]]

\* a variant for which no entry ever expires
is_expired_never(entry) == FALSE

\* lines 28-32
is_expired(entry) == now > entry.expires_at

\* line 36
effective_ttl(ttl) == IF ttl = 0 THEN default_ttl ELSE ttl

\* lines 37-47: the entry set stores for value
new_entry(value, ttl) ==
    [value |-> pickle_dumps(value), expires_at |-> now + effective_ttl(ttl)]

\* lines 34-50: set; when pickle.dumps raises nothing is stored and the
\* entry the key had stays
cache_set(c, key, value, ttl) ==
    IF picklable(value) THEN dict_set(c, key, new_entry(value, ttl)) ELSE c

\* lines 52-77: what get returns
cache_get_value(c, key, default) ==
    IF key \notin DOMAIN c THEN default
    ELSE IF is_expired(c[key]) THEN default
    ELSE pickle_loads(c[key].value)

\* lines 60-61: the cache after get
cache_get_cache(c, key) ==
    IF key \in DOMAIN c /\ is_expired(c[key]) THEN dict_del(c, key) ELSE c

InitCache ==
    /\ pc = "cache"
    /\ fn = "CacheManager"
    /\ raw = <<>>
    /\ label = "NONE"
    /\ ret = <<>>
    /\ NoProcess

\* the variables no call on the cache changes
notCache ==
    <<pc, fn, pureVars, moduleVars, callVars, runs, files, uuids, authVars,
      likeVars, histVars>>

\* time passes
Tick ==
    /\ pc \in {"cache", "cached"}
    /\ now < MaxTime
    /\ now' = now + 1
    /\ UNCHANGED <<notCache, cache, cache_call, stored, executed>>

\* lines 34-50
CacheSet ==
    /\ pc = "cache"
    /\ \E key \in CacheKeys, value \in CacheValues, ttl \in TtlValues :
          /\ cache' = cache_set(cache, key, value, ttl)
          /\ stored' = IF picklable(value)
                       THEN dict_set(stored, key,
                                [value |-> value,
                                 expires_at |-> now + effective_ttl(ttl)])
                       ELSE stored
          /\ cache_call' = [op |-> "set", key |-> key, at |-> now]
    /\ UNCHANGED <<notCache, now, executed>>

\* lines 52-77
CacheGet ==
    /\ pc = "cache"
    /\ \E key \in CacheKeys, default \in Defaults :
          /\ cache' = cache_get_cache(cache, key)
          /\ cache_call' = [op |-> "get", key |-> key, at |-> now,
                            default |-> default,
                            returned |-> cache_get_value(cache, key, default)]
    /\ UNCHANGED <<notCache, now, stored, executed>>

\* lines 79-85
CacheDelete ==
    /\ pc = "cache"
    /\ \E key \in CacheKeys :
          /\ cache' = dict_del(cache, key)
          /\ stored' = dict_del(stored, key)
          /\ cache_call' = [op |-> "delete", key |-> key, at |-> now,
                            returned |-> key \in DOMAIN cache]
    /\ UNCHANGED <<notCache, now, executed>>

\* lines 87-90
CacheClear ==
    /\ pc = "cache"
    /\ cache' = NoEntries
    /\ stored' = NoEntries
    /\ cache_call' = [op |-> "clear", at |-> now]
    /\ UNCHANGED <<notCache, now, executed>>

\* lines 92-103
CleanupExpired ==
    /\ pc = "cache"
    /\ LET expired_keys == {k \in DOMAIN cache : is_expired(cache[k])}
       IN  /\ cache' = [k \in DOMAIN cache \ expired_keys |-> cache[k]]
           /\ cache_call' = [op |-> "cleanup_expired", at |-> now,
                             returned |-> Cardinality(expired_keys)]
    /\ UNCHANGED <<notCache, now, stored, executed>>

NextCache ==
    Tick \/ CacheSet \/ CacheGet \/ CacheDelete \/ CacheClear \/ CleanupExpired

SpecCache == InitCache /\ [][NextCache]_vars

(***************************************************************************)
(* Claims about the cache, checked under SpecCache.                        *)
(***************************************************************************)
\* the last call was get(k) and k has an entry that set stored and that no
\* delete, clear or later set has taken away or replaced
GotStored ==
    /\ cache_call.op = "get"
    /\ cache_call.key \in DOMAIN stored

\* C21: a get of a key returns the value that set stored under it at every
\* time before the entry's expires_at, whatever happened to other keys; at
\* every time after it the get returns the default, and the key is no
\* longer in the cache after that get.
C21_CacheTtl ==
    (pc = "cache" /\ GotStored) =>
        LET entry == stored[cache_call.key]
        IN  /\ cache_call.at < entry.expires_at =>
                   cache_call.returned = entry.value
            /\ cache_call.at > entry.expires_at =>
                   /\ cache_call.returned = cache_call.default
                   /\ cache_call.key \notin DOMAIN cache

\* a get after the expiry of an entry, with another entry left in the cache
C21_Witness ==
    /\ pc = "cache"
    /\ GotStored
    /\ cache_call.at > stored[cache_call.key].expires_at
    /\ cache_call.returned = <<"default">>
    /\ Cardinality(DOMAIN cache) = 1

\* a get one tick before the expiry of an entry, with ticks since its set
C21_WitnessLive ==
    /\ pc = "cache"
    /\ GotStored
    /\ cache_call.at + 1 = stored[cache_call.key].expires_at
    /\ cache_call.at > 0
    /\ cache_call.returned = <<"v1">>

(***************************************************************************)
(* cache.CacheDecorator, lines 132-179: a function func(x, y=0) that       *)
(* returns x + y, wrapped by the decorator (sync_wrapper)                  *)
(***************************************************************************)
MaxArg == 2

\* the values of x in the calls; y is 2 in all of them
ArgValues == 1 .. MaxArg

\* line 135: ttl of the decorator, in ticks of the model's clock
decorator_ttl == 1

\* func(x, y=2) and func(x=x, y=2): the positional arguments and the
\* keyword arguments of the call, in the order they are written
CallForms == {"mixed", "keyword"}

call_args(form, x) == IF form = "mixed" THEN <<x>> ELSE <<>>

call_kwargs(form, x) ==
    IF form = "mixed" THEN << <<"y", 2>> >>
    ELSE << <<"x", x>>, <<"y", 2>> >>

\* lines 23-26: the key is the MD5 digest of "prefix:args:kwargs", one
\* digest for each such string
generate_key(prefix, args, kwargs) == <<prefix, args, kwargs>>

\* the wrapped function: x + y, as the text pickle holds
func(x) == <<ToString(x + 2)>>

InitCached ==
    /\ pc = "cached"
    /\ fn = "sync_wrapper"
    /\ raw = <<>>
    /\ label = "NONE"
    /\ ret = <<>>
    /\ NoProcess

\* lines 162-177: one call of the wrapped function
CallCached ==
    /\ pc = "cached"
    /\ \E x \in ArgValues, form \in CallForms :
          LET cache_key == generate_key("func", call_args(form, x),
                                        call_kwargs(form, x))
              cached_result == cache_get_value(cache, cache_key, None)
              looked == cache_get_cache(cache, cache_key)
              result == func(x)
          IN  IF cached_result # None
              THEN /\ cache' = looked
                   /\ executed' = executed
                   /\ cache_call' = [op |-> "call", x |-> x, form |-> form,
                                     at |-> now, returned |-> cached_result]
              ELSE /\ cache' = cache_set(looked, cache_key, result,
                                         decorator_ttl)
                   /\ executed' = executed \cup
                          {[x |-> x, form |-> form, at |-> now]}
                   /\ cache_call' = [op |-> "call", x |-> x, form |-> form,
                                     at |-> now, returned |-> result]
    /\ UNCHANGED <<notCache, now, stored>>

NextCached == Tick \/ CallCached

SpecCached == InitCached /\ [][NextCached]_vars

(***************************************************************************)
(* Claims about the decorator, checked under SpecCached.                   *)
(***************************************************************************)
\* the second execution is within the TTL of the result of the first
WithinTtl(first, second) ==
    /\ first.at <= second.at
    /\ second.at <= first.at + decorator_ttl

\* C22: within the TTL the wrapped function is executed at most once for
\* the same argument values, also when the values are passed positionally
\* in one call and by keyword in another.
C22_OncePerArguments ==
    pc = "cached" =>
        \A first \in executed, second \in executed :
            (first.x = second.x /\ WithinTtl(first, second)) => first = second

\* within the TTL the wrapped function is executed at most once for the
\* same arguments written in the same way, and every call returns x + y
C22_OncePerKey ==
    pc = "cached" =>
        /\ \A first \in executed, second \in executed :
              (first.x = second.x /\ first.form = second.form
                   /\ WithinTtl(first, second)) => first = second
        /\ cache_call.op = "call" => cache_call.returned = func(cache_call.x)
        /\ cache_call.op = "call" =>
              \E e \in executed : e.x = cache_call.x /\ e.form = cache_call.form
                                      /\ WithinTtl(e, cache_call)

(***************************************************************************)
(* auth.AuthManager, lines 15-83                                           *)
(***************************************************************************)
\* the values uuid.uuid4 can give to create_session
SessionIds == {"s1", "s2", "s3"}

\* the session_id cookie of a request: a session id, a text that is none,
\* or "" for a request without the cookie (line 50 treats both as absent)
Cookies == SessionIds \cup {"invalid_session", ""}

Usernames == {Str("admin"), Str("bob"), Str("")}

\* line 42: a value no earlier call has returned
new_session_id == CHOOSE s \in SessionIds \ DOMAIN issued : TRUE

\* lines 47-52
get_current_user(cookie) ==
    IF cookie # "" /\ cookie \in DOMAIN user_sessions
    THEN user_sessions[cookie]
    ELSE None

\* a variant that empties the session table
without_session_all(sessions, session_id) == NoEntries

\* lines 56-58: the session table after del user_sessions[session_id]
without_session(sessions, session_id) == dict_del(sessions, session_id)

\* line 66: not user
not_user(user) == user = None \/ user = <<>>

\* lines 63-68: what require_auth does
require_auth(cookie) ==
    LET user == get_current_user(cookie)
    IN  IF not_user(user)
        THEN [raised |-> "401", returned |-> None]
        ELSE [raised |-> "", returned |-> user]

\* lines 70-75: what require_admin does
require_admin(cookie) ==
    LET auth == require_auth(cookie)
    IN  IF auth.raised # "" THEN auth
        ELSE IF auth.returned # Str("admin")
        THEN [raised |-> "403", returned |-> None]
        ELSE auth

InitAuth ==
    /\ pc = "auth"
    /\ fn = "AuthManager"
    /\ raw = <<>>
    /\ label = "NONE"
    /\ ret = <<>>
    /\ NoProcess

notAuth ==
    <<pc, fn, pureVars, moduleVars, callVars, runs, files, uuids, cacheVars,
      likeVars, histVars>>

\* lines 40-45
CreateSession ==
    /\ pc = "auth"
    /\ DOMAIN issued # SessionIds
    /\ \E username \in Usernames :
          /\ user_sessions' = dict_set(user_sessions, new_session_id, username)
          /\ issued' = dict_set(issued, new_session_id, username)
          /\ auth_call' = [op |-> "create_session", username |-> username,
                           returned |-> new_session_id]
    /\ UNCHANGED <<notAuth, invalidated>>

\* lines 47-52
GetCurrentUser ==
    /\ pc = "auth"
    /\ \E cookie \in Cookies :
          auth_call' = [op |-> "get_current_user", cookie |-> cookie,
                        returned |-> get_current_user(cookie)]
    /\ UNCHANGED <<notAuth, user_sessions, issued, invalidated>>

\* lines 54-61
InvalidateSession ==
    /\ pc = "auth"
    /\ \E session_id \in Cookies :
          /\ user_sessions' =
                 IF session_id \in DOMAIN user_sessions
                 THEN without_session(user_sessions, session_id)
                 ELSE user_sessions
          /\ invalidated' =
                 IF session_id \in DOMAIN issued
                 THEN invalidated \cup {session_id} ELSE invalidated
          /\ auth_call' = [op |-> "invalidate_session",
                           session_id |-> session_id,
                           was_valid |-> session_id \in DOMAIN issued
                                            /\ session_id \notin invalidated,
                           returned |-> session_id \in DOMAIN user_sessions]
    /\ UNCHANGED <<notAuth, issued>>

\* lines 63-68
RequireAuth ==
    /\ pc = "auth"
    /\ \E cookie \in Cookies :
          auth_call' = [op |-> "require_auth", cookie |-> cookie,
                        raised |-> require_auth(cookie).raised,
                        returned |-> require_auth(cookie).returned]
    /\ UNCHANGED <<notAuth, user_sessions, issued, invalidated>>

\* lines 70-75
RequireAdmin ==
    /\ pc = "auth"
    /\ \E cookie \in Cookies :
          auth_call' = [op |-> "require_admin", cookie |-> cookie,
                        raised |-> require_admin(cookie).raised,
                        returned |-> require_admin(cookie).returned]
    /\ UNCHANGED <<notAuth, user_sessions, issued, invalidated>>

NextAuth ==
    \/ CreateSession
    \/ GetCurrentUser
    \/ InvalidateSession
    \/ RequireAuth
    \/ RequireAdmin

SpecAuth == InitAuth /\ [][NextAuth]_vars

(***************************************************************************)
(* Claims about the sessions, checked under SpecAuth.                      *)
(***************************************************************************)
\* s was returned by create_session and has not been invalidated since
ValidSession(s) == s \in DOMAIN issued /\ s \notin invalidated

\* the session belongs to somebody: require_auth takes the empty username
\* for no user (line 66)
ValidUser(s) == ValidSession(s) /\ issued[s] # <<>>

\* C23: get_current_user returns u for the session ids create_session(u)
\* returned and that were not invalidated since, and None for every other
\* cookie; invalidate_session(s) returns True exactly when s was valid, and
\* the sessions left are the other valid ones; require_auth raises 401
\* without a valid session and returns the user otherwise; require_admin
\* raises 403 for every valid user other than admin.
C23_SessionLifecycle ==
    pc = "auth" =>
        /\ user_sessions = [s \in {t \in SessionIds : ValidSession(t)} |-> issued[s]]
        /\ auth_call.op = "get_current_user" =>
              auth_call.returned =
                  IF ValidSession(auth_call.cookie)
                  THEN issued[auth_call.cookie] ELSE None
        /\ auth_call.op = "invalidate_session" =>
              /\ auth_call.returned = auth_call.was_valid
              /\ ~ ValidSession(auth_call.session_id)
        /\ auth_call.op = "require_auth" =>
              /\ ~ ValidSession(auth_call.cookie) => auth_call.raised = "401"
              /\ ValidUser(auth_call.cookie) =>
                    /\ auth_call.raised = ""
                    /\ auth_call.returned = issued[auth_call.cookie]
        /\ auth_call.op = "require_admin" =>
              /\ ~ ValidSession(auth_call.cookie) => auth_call.raised = "401"
              /\ ValidUser(auth_call.cookie) =>
                    IF issued[auth_call.cookie] = Str("admin")
                    THEN /\ auth_call.raised = ""
                         /\ auth_call.returned = Str("admin")
                    ELSE auth_call.raised = "403"

\* one of three sessions was invalidated, and require_admin has refused a
\* user whose session is still valid
C23_Witness ==
    /\ pc = "auth"
    /\ Cardinality(DOMAIN user_sessions) = 2
    /\ Cardinality(invalidated) = 1
    /\ auth_call.op = "require_admin"
    /\ ValidUser(auth_call.cookie)
    /\ auth_call.raised = "403"

(***************************************************************************)
(* convert_to_spacy_format on one sentence in which a text is repeated     *)
(* (labeling_fast lines 230-264, labeling_smart lines 217-251)             *)
(***************************************************************************)
MaxRepeatLen == 4

RepeatChars == {"$", "1"}

RepeatSentences == StringsUpTo(RepeatChars, MaxRepeatLen) \ {<<>>}

InitRepeat ==
    /\ pc = "repeat"
    /\ fn \in ConvertFns
    /\ raw \in RepeatSentences
    /\ label = "NONE"
    /\ ret = <<>>
    /\ NoProcess

\* the call convert_to_spacy_format([raw]) of the fast or of the smart
\* module, with the model loaded or not
ConvertRepeated ==
    /\ pc = "repeat"
    /\ \E available \in BOOLEAN :
          \E labeled_data \in
                 (IF fn = "smart.convert_to_spacy_format"
                  THEN label_entities_smart(<<raw>>, available)
                  ELSE label_entities_fast(<<raw>>, available)) :
              /\ sentences' = <<raw>>
              /\ idx' = 1
              /\ results' = labeled_data
              /\ spacy_format' = group_by_text(<<>>, labeled_data)
    /\ pc' = "returned"
    /\ UNCHANGED <<appVars, fn, pureVars, moduleVars, path>>

NextRepeat == ConvertRepeated

SpecRepeat == InitRepeat /\ [][NextRepeat]_vars

(***************************************************************************)
(* Claims about repeated entity texts, checked under SpecRepeat.           *)
(***************************************************************************)
\* the offsets at which entity occurs in text
Occurrences(text, entity) ==
    {i \in 0..(Len(text) - Len(entity)) :
         SubSeq(text, i + 1, i + Len(entity)) = entity}

FirstOccurrence(text, entity) ==
    CHOOSE i \in Occurrences(text, entity) :
        \A j \in Occurrences(text, entity) : i <= j

\* C24: the records of a sentence whose entity text is the same all get
\* the span of the first occurrence of that text in the sentence, one span
\* for each record, also when the text occurs at other offsets as well.
C24_RepeatedTextCollapses ==
    Converted =>
        \A k \in 1..Len(spacy_format) :
            LET T == spacy_format[k].text
                spans == spacy_format[k].entities
                from == Producers(T)
            IN  /\ Len(spans) = Len(from)
                /\ \A i, j \in 1..Len(from) :
                      from[i].entity = from[j].entity =>
                          /\ spans[i][1] = FirstOccurrence(T, from[i].entity)
                          /\ spans[i][2] = spans[i][1] + Len(from[i].entity)
                          /\ spans[j][1] = spans[i][1]
                          /\ spans[j][2] = spans[i][2]

\* two records with the text "$1", which occurs at offsets 0 and 2 of the
\* sentence, have given two spans (0, 2)
C24_Witness ==
    /\ Converted
    /\ raw = Str("$1$1")
    /\ Len(results) = 2
    /\ results[1].entity = Str("$1")
    /\ results[2].entity = Str("$1")
    /\ Occurrences(raw, Str("$1")) = {0, 2}
    /\ Len(spacy_format) = 1
    /\ spacy_format[1].entities = << <<0, 2, "MONEY">>, <<0, 2, "MONEY">> >>

(***************************************************************************)
(* Claims about the families of patterns, checked under SpecFallback.      *)
(***************************************************************************)
\* the fallback has returned a record for the case
Extracted(c) ==
    \E k \in 1..Len(ret[1]) :
        /\ ret[1][k].text = c.sentence
        /\ ret[1][k].entity = c.entity
        /\ ret[1][k].label = c.label

\* C25: for a sentence with a numeric date, a year, a month-name date, an
\* email address, a phone number or a currency amount the fallback
\* returns a record with the matched text and the label of the family.
C25_FourFamilies ==
    (fn = "extract_entities_fallback" /\ ret # <<>>) =>
        \A c \in FamilyCases : raw = c.sentence => Extracted(c)

\* the text is digits and non-word characters only
DigitsAndSymbols(c) == only_digits_and_symbols(c.entity)

\* what the code does: the families whose match has a letter or a currency
\* symbol give their record, and a match of digits and punctuation alone
\* gives none
C25_LetterFamiliesOnly ==
    (fn = "extract_entities_fallback" /\ ret # <<>>) =>
        \A c \in FamilyCases :
            raw = c.sentence =>
                (Extracted(c) <=> (c.label = "MONEY" \/ ~ DigitsAndSymbols(c)))

(***************************************************************************)
(* Claims about sentence lists with an element that is no string, checked  *)
(* under Spec.                                                             *)
(***************************************************************************)
\* the positions of the elements of the running call that are no string
Malformed == {k \in 1..Len(sentences) : sentences[k] = None}

MaxPipelineLen == 3

PipelineChars == {"a", ".", " ", NBSP, LDQUO, RSQUO}

\* "Â£5"
MojibakeInput == <<A_CIRC, POUND, "5">>

PipelineInputs == StringsUpTo(PipelineChars, MaxPipelineLen) \cup {MojibakeInput}

InitPipeline ==
    /\ pc = "pipeline"
    /\ fn = "generate_dataset"
    /\ raw \in PipelineInputs
    /\ label = "NONE"
    /\ ret = <<>>
    /\ NoProcess

\* lines 434-435: cleaned_text = clean_text(text), kept in ret, and
\* sentences = split_sentences(cleaned_text)
CleanAndSplit ==
    /\ pc = "pipeline"
    /\ ret' = <<preprocess_clean_text(raw)>>
    /\ sentences' = run_sentences(raw)
    /\ pc' = "split"
    /\ UNCHANGED <<appVars, fn, raw, label, moduleVars, idx, results, path,
                   spacy_format>>

NextPipeline == CleanAndSplit

SpecPipeline == InitPipeline /\ [][NextPipeline]_vars

(***************************************************************************)
(* Claims about the sentences of a run, checked under SpecPipeline.        *)
(***************************************************************************)
\* text holds none of the glyphs normalization replaces and no U+00C2
\* artifact in front of a glyph
IsNormalizedText(text) ==
    /\ \A i \in 1..Len(text) : text[i] \notin NotNormalized
    /\ ~ HasMojibakePair(text)

\* s is text[i..j] for some i and j
IsSubstring(s, text) ==
    \E i \in 1..(Len(text) + 1) :
        /\ i + Len(s) - 1 <= Len(text)
        /\ SubSeq(text, i, i + Len(s) - 1) = s

\* C27: whatever the text of the request, the text generate_dataset gives
\* to split_sentences holds no smart quote, no non-breaking space and no
\* mojibake pair, and every sentence handed to the extractor is a
\* contiguous part of it that is not empty after trimming.
C27_SentencesNormalized ==
    (pc = "split" /\ fn = "generate_dataset") =>
        /\ IsNormalizedText(ret[1])
        /\ \A k \in 1..Len(sentences) :
              /\ IsSubstring(sentences[k], ret[1])
              /\ strip(sentences[k]) # <<>>
              /\ IsNormalizedText(sentences[k])

\* what the code keeps: the sentences are contiguous parts of the cleaned
\* text, not empty after trimming, and the cleaned text has no whitespace
\* other than single spaces inside it (so no non-breaking space)
C27_SentencesOfCleanedText ==
    (pc = "split" /\ fn = "generate_dataset") =>
        /\ \A i \in 1..Len(ret[1]) : IsSpace(ret[1][i]) => ret[1][i] = " "
        /\ \A k \in 1..Len(sentences) :
              /\ IsSubstring(sentences[k], ret[1])
              /\ strip(sentences[k]) # <<>>

(***************************************************************************)
(* app.like_dataset (lines 798-816) and CommunityDatasets.add_like         *)
(* (community_datasets.py lines 418-493)                                   *)
(***************************************************************************)
MaxLikes == 3

\* the community datasets there are, and an id that no dataset has
DatasetIds == {"d1", "d2"}

LikedIds == DatasetIds \cup {"no-such-id"}

\* get_current_user(request): the user of the session, None without one
LikeUsers == {Str("ann"), Str("bob"), None}

\* line 429: user_name and self.use_mongodb and self.db is not None
checks_user(user_name) == user_name # None /\ user_name # <<>> /\ use_mongodb

\* lines 433-436: find_one
existing_like(dataset_id, user_name) ==
    [dataset_id |-> dataset_id, user_name |-> user_name] \in dataset_likes

\* lines 455-469 (update_one, modified_count) and 472-481 (the loop over
\* the file's datasets): a dataset has the id
updated(dataset_id) == dataset_id \in DOMAIN likes

InitLikes ==
    /\ pc = "likes"
    /\ fn = "like_dataset"
    /\ raw = <<>>
    /\ label = "NONE"
    /\ ret = <<>>
    /\ NoLabeling
    /\ NoCache
    /\ NoAuth
    /\ NoHistory
    /\ use_mongodb \in BOOLEAN
    /\ likes = [d \in DatasetIds |-> 0]
    /\ dataset_likes = {}
    /\ like_call = [op |-> "none"]
    /\ increments = [p \in (LikeUsers \ {None}) \X DatasetIds |-> 0]

notLikes ==
    <<pc, fn, pureVars, moduleVars, callVars, runs, files, uuids, cacheVars,
      authVars, histVars>>

\* one request POST /like_dataset: like_dataset calls add_like and answers
\* with its result; db_error: an operation on dataset_likes raises (lines
\* 448-450)
LikeDataset ==
    /\ pc = "likes"
    /\ \E dataset_id \in LikedIds, current_user \in LikeUsers,
          db_error \in BOOLEAN :
          LET checked == checks_user(current_user)
              refused == checked /\ ~db_error
                             /\ existing_like(dataset_id, current_user)
              recorded == checked /\ ~db_error /\ ~refused
              success == ~refused /\ updated(dataset_id)
          IN  /\ db_error => checked
              /\ success => likes[dataset_id] < MaxLikes
              /\ dataset_likes' =
                     IF recorded
                     THEN dataset_likes \cup
                              {[dataset_id |-> dataset_id,
                                user_name |-> current_user]}
                     ELSE dataset_likes
              /\ likes' = IF success
                          THEN [likes EXCEPT ![dataset_id] = @ + 1]
                          ELSE likes
              /\ increments' =
                     IF success /\ current_user # None
                     THEN [increments EXCEPT ![<<current_user, dataset_id>>] = @ + 1]
                     ELSE increments
              /\ like_call' = [op |-> "like_dataset", dataset_id |-> dataset_id,
                               current_user |-> current_user,
                               db_error |-> db_error,
                               on_record |-> existing_like(dataset_id,
                                                           current_user),
                               repeated |-> current_user # None
                                              /\ dataset_id \in DatasetIds
                                              /\ increments[<<current_user, dataset_id>>] > 0,
                               recorded |-> recorded,
                               incremented |-> success,
                               success |-> success]
    /\ UNCHANGED <<notLikes, use_mongodb>>

NextLikes == LikeDataset

SpecLikes == InitLikes /\ [][NextLikes]_vars

(***************************************************************************)
(* Claims about likes, checked under SpecLikes.                            *)
(***************************************************************************)
\* C28: in both storage modes the likes of one logged-in user raise the
\* counter of one dataset by at most 1; a repeated like of the user
\* answers success False and does not raise the counter; and a like is
\* recorded for the user only when the counter was raised.
C28_LikeAtMostOnce ==
    pc = "likes" =>
        /\ \A p \in DOMAIN increments : increments[p] <= 1
        /\ like_call.op = "like_dataset" =>
              /\ like_call.repeated =>
                    ~like_call.success /\ ~like_call.incremented
              /\ like_call.recorded => like_call.incremented

\* what the code keeps: with MongoDB, a like of a user whose earlier like
\* of the dataset is on record answers success False and does not raise
\* the counter, unless the lookup of the record raises
C28_RecordedLikeRefused ==
    (pc = "likes" /\ like_call.op = "like_dataset" /\ use_mongodb
        /\ like_call.on_record /\ ~like_call.db_error) =>
            /\ ~like_call.success
            /\ ~like_call.incremented
            /\ ~like_call.recorded

(***************************************************************************)
(* dataset_history.DatasetHistory with file-based storage: add_to_history  *)
(* (lines 69-118), get_dataset_by_id (lines 175-232), delete_dataset       *)
(* (lines 272-312)                                                         *)
(***************************************************************************)
MaxHistory == 3

Filenames == {"a.csv", "b.csv"}

\* the ids a caller asks for
HistoryIds == 1 .. MaxHistory

\* line 100: entry["id"] = len(self.get_history()) + 1
next_id(h) == Len(h) + 1

\* line 304: the entries whose id is not dataset_id
RECURSIVE without_id(_, _)
without_id(h, dataset_id) ==
    IF h = <<>> THEN <<>>
    ELSE (IF Head(h).id # dataset_id THEN <<Head(h)>> ELSE <<>>)
             \o without_id(Tail(h), dataset_id)

\* lines 228-232: the first entry with the id, {} if there is none
entry_by_id(h, dataset_id) ==
    IF \E k \in 1..Len(h) : h[k].id = dataset_id
    THEN <<h[CHOOSE k \in 1..Len(h) :
                 /\ h[k].id = dataset_id
                 /\ \A j \in 1..(k - 1) : h[j].id # dataset_id]>>
    ELSE <<>>

InitHistory ==
    /\ pc = "history"
    /\ fn = "DatasetHistory"
    /\ raw = <<>>
    /\ label = "NONE"
    /\ ret = <<>>
    /\ NoProcess

notHistory ==
    <<pc, fn, pureVars, moduleVars, callVars, runs, files, uuids, cacheVars,
      authVars, likeVars>>

\* lines 69-118, file-based branch
AddToHistory ==
    /\ pc = "history"
    /\ Len(history) < MaxHistory
    /\ \E filename \in Filenames :
          /\ history' = Append(history,
                               [id |-> next_id(history), filename |-> filename])
          /\ history_call' = [op |-> "add_to_history", id |-> next_id(history)]
    /\ UNCHANGED notHistory

\* lines 272-312, file-based branch
DeleteDataset ==
    /\ pc = "history"
    /\ \E dataset_id \in HistoryIds :
          /\ history' = without_id(history, dataset_id)
          /\ history_call' =
                 [op |-> "delete_dataset", id |-> dataset_id,
                  returned |-> Len(without_id(history, dataset_id)) < Len(history),
                  removed |-> Len(history) - Len(without_id(history, dataset_id))]
    /\ UNCHANGED notHistory

\* lines 175-232, file-based branch
GetDatasetById ==
    /\ pc = "history"
    /\ \E dataset_id \in HistoryIds :
          history_call' = [op |-> "get_dataset_by_id", id |-> dataset_id,
                           returned |-> entry_by_id(history, dataset_id)]
    /\ UNCHANGED <<notHistory, history>>

NextHistory == AddToHistory \/ DeleteDataset \/ GetDatasetById

SpecHistory == InitHistory /\ [][NextHistory]_vars

(***************************************************************************)
(* Claims about the history, checked under SpecHistory.                    *)
(***************************************************************************)
\* C30: after any sequence of add_to_history and delete_dataset calls no
\* two entries of the file-based history have the same id, so an id
\* designates at most one entry and delete_dataset removes at most one.
C30_UniqueHistoryIds ==
    pc = "history" =>
        /\ \A j, k \in 1..Len(history) :
              history[j].id = history[k].id => j = k
        /\ history_call.op = "delete_dataset" => history_call.removed <= 1

\* what the code keeps: the id of a new entry is the number of entries the
\* history then has, and delete_dataset leaves no entry with the id
C30_IdIsLength ==
    pc = "history" =>
        /\ history_call.op = "add_to_history" =>
              /\ history_call.id = Len(history)
              /\ history[Len(history)].id = Len(history)
        /\ history_call.op = "delete_dataset" =>
              \A k \in 1..Len(history) : history[k].id # history_call.id

(***************************************************************************)
(* Claims about the SpanRecords of smart mode, checked under Spec.         *)
(***************************************************************************)
SmartConverted == Converted /\ fn = "smart.convert_to_spacy_format"

\* the spans of a SpanRecord that cover the whole text with a category
WholeSentenceSpans(rec) ==
    {j \in 1..Len(rec.entities) :
        /\ rec.entities[j][1] = 0
        /\ rec.entities[j][2] = Len(rec.text)
        /\ rec.entities[j][3] \in CategoryLabels}

\* the places of the input that hold the text
InputOccurrences(text) == {i \in 1..Len(sentences) : sentences[i] = text}

\* two spans share a character
Overlap(a, b) == a[1] < b[2] /\ b[1] < a[2]

====
